---- MODULE Spec2Model ----
(***************************************************************************)
(* Deferred-action orchestration of the session plugin (src/index.ts):     *)
(* the three pending-state maps, the event hook (session.idle and          *)
(* session.compacted) and the execute function of the session tool         *)
(* (modes message, new, compact, fork).                                    *)
(*                                                                         *)
(* JavaScript runs the plugin on one thread: a handler runs without        *)
(* interruption from one await to the next.  Each action below is one such *)
(* run-to-suspension segment of a handler.  Remote operations of the       *)
(* backend are recorded in log when they are issued and settle (resolve or *)
(* reject) in a later action.                                              *)
(***************************************************************************)
EXTENDS Integers, Sequences, FiniteSets, TLC

VARIABLES
  pendingMessages,     \* Map<string, PendingMessage>      (index.ts:204)
  pendingCompactions,  \* Map<string, CompactionRequest>   (index.ts:207)
  activeCompactions,   \* Map<string, CompactionState>     (index.ts:210)
  execs,               \* per session: invocations of the session tool, in start order
  handlers,            \* per session: invocations of the event hook that took an entry
  log                  \* per session: remote operations issued on its behalf, in issue order

vars == <<pendingMessages, pendingCompactions, activeCompactions, execs, handlers, log>>

----------------------------------------------------------------------------
(* Bounds of the model *)

MaxCalls == 2      \* invocations of the session tool in one behaviour
MaxMsgs == 2       \* messages in a session history returned by session.messages

----------------------------------------------------------------------------
(* Values *)

\* JavaScript undefined: an optional argument that was not supplied, an
\* absent field of a message, an omitted field of a request body.
None == "undefined"

\* The falsy values a string operand of || or ?: can take.
Falsy == {None, ""}

Truthy(v) == v \notin Falsy

\* a || b on strings
Or(a, b) == IF Truthy(a) THEN a ELSE b

Sessions == {"s1", "s2"}

\* toolCtx.directory: the directory of the invoking session
CtxDirectory(s) == "/work/" \o s

\* The tools strings in play.  ToolsJson is what a caller passes when it
\* follows the argument's description; ToolsBad is a string JSON.parse rejects.
ToolsJson == "{\"read\":true}"
ToolsBad == "{read"

\* The tool-permission map stored on an assistant message, and its
\* serialization by JSON.stringify.
ToolsMap == "map(bash:false)"
JSONStringify(v) == IF v = ToolsMap THEN "{\"bash\":false}" ELSE "null"

\* JSON.parse: the parsed value, or the throw of a SyntaxError
ParseThrows(s) == s \notin {ToolsJson, "{\"bash\":false}"}
JSONParse(s) ==
  CASE s = ToolsJson -> "map(read:true)"
    [] s = "{\"bash\":false}" -> ToolsMap
    [] OTHER -> "SyntaxError"

\* tools ? JSON.parse(tools) : undefined, where it does not throw
ToolsField(tools) == IF Truthy(tools) THEN JSONParse(tools) ELSE None
ToolsThrow(tools) == Truthy(tools) /\ ParseThrows(tools)

\* The model field of a prompt body.  NoModel is an omitted model.
NoModel == [modelID |-> None, providerID |-> None]

----------------------------------------------------------------------------
(* Map<string, V>: a function on the set of present keys *)

Has(m, k) == k \in DOMAIN m
Get(m, k) == m[k]
Set(m, k, v) == [x \in DOMAIN m \cup {k} |-> IF x = k THEN v ELSE m[x]]
Delete(m, k) == [x \in DOMAIN m \ {k} |-> m[x]]
EmptyMap == [x \in {} |-> None]

----------------------------------------------------------------------------
(* Session histories returned by session.messages *)

UserMsg ==
  [role |-> "user", agent |-> None, modelID |-> None, providerID |-> None,
   system |-> None, tools |-> None]
AssistantA ==
  [role |-> "assistant", agent |-> "build", modelID |-> "model-a",
   providerID |-> "provider-a", system |-> "system-a", tools |-> ToolsMap]
AssistantB ==
  [role |-> "assistant", agent |-> "review", modelID |-> "model-b",
   providerID |-> "provider-b", system |-> None, tools |-> None]

MsgKinds == {UserMsg, AssistantA, AssistantB}

RECURSIVE SeqsUpTo(_, _)
SeqsUpTo(S, n) ==
  IF n = 0 THEN {<<>>}
  ELSE LET shorter == SeqsUpTo(S, n - 1)
       IN shorter \cup {Append(q, x) : q \in {r \in shorter : Len(r) = n - 1}, x \in S}

\* Every history of at most MaxMsgs messages
Histories == SeqsUpTo(MsgKinds, MaxMsgs)

\* The histories with at most one kind of assistant message
CoreHistories == SeqsUpTo({UserMsg, AssistantA}, MaxMsgs)

\* msgs.data.filter((m) => m.info.role === "assistant").pop()
LastAssistant(msgs) ==
  LET idx == {i \in 1..Len(msgs) : msgs[i].role = "assistant"}
  IN IF idx = {} THEN None
     ELSE LET last == CHOOSE i \in idx : \A j \in idx : j <= i IN msgs[last]

\* inheritedAgent .. inheritedTools
NoContext ==
  [agent |-> None, modelID |-> None, providerID |-> None, system |-> None,
   tools |-> None]
\* Inherited with a slip: the first assistant message is used
InheritedFromFirst(msgs) ==
  IF \A i \in 1..Len(msgs) : msgs[i].role # "assistant" THEN NoContext
  ELSE LET a == msgs[CHOOSE i \in 1..Len(msgs) :
                     /\ msgs[i].role = "assistant"
                     /\ \A j \in 1..(i - 1) : msgs[j].role # "assistant"]
       IN [agent |-> a.agent, modelID |-> a.modelID, providerID |-> a.providerID,
           system |-> a.system,
           tools |-> IF Truthy(a.tools) THEN JSONStringify(a.tools) ELSE None]

Inherited(msgs) ==
  IF \A i \in 1..Len(msgs) : msgs[i].role # "assistant" THEN NoContext
  ELSE LET a == LastAssistant(msgs)
       IN [agent |-> a.agent, modelID |-> a.modelID, providerID |-> a.providerID,
           system |-> a.system,
           tools |-> IF Truthy(a.tools) THEN JSONStringify(a.tools) ELSE None]

----------------------------------------------------------------------------------------------------------------------------------------
(* Arguments of the session tool *)

Modes == {"message", "new", "compact", "fork"}

\* The text of the n-th invocation in session s.  Texts are taken pairwise
\* distinct so that a prompt in the log can be traced to the invocation that
\* supplied its text.
TextOf(s, n) == "text-" \o s \o "-" \o ToString(n)

AgentArgs == {None, "plan"}
ModelArgs == {None, "model-x"}
ProviderArgs == {None, "provider-x"}
SystemArgs == {None, "system-x"}
ToolsArgs == {None, ToolsJson, ToolsBad}
DirectoryArgs == {None, "/elsewhere"}
TitleArgs == {None, "Branch A"}

\* Every combination of arguments
ArgSpace(s, n) ==
  [mode : Modes, text : {TextOf(s, n)}, agent : AgentArgs, directory : DirectoryArgs,
   title : TitleArgs, modelID : ModelArgs, providerID : ProviderArgs,
   system : SystemArgs, tools : ToolsArgs, async : BOOLEAN]

\* The arguments of the invocations that are interleaved with each other: the
\* mode varies, the tools string of the two staging modes, and fork is given a
\* title; the other optional arguments are left out and resolve to what the
\* session history provides.
CoreArgs(s, n, modes, tools, titles) ==
  [mode : modes, text : {TextOf(s, n)}, agent : {None}, directory : {None},
   title : titles, modelID : {None}, providerID : {None}, system : {None},
   tools : tools, async : {FALSE}]

ArgCore(s, n) ==
  CoreArgs(s, n, {"message", "compact"}, {None, ToolsBad}, {None})
    \cup CoreArgs(s, n, {"new"}, {None}, {None})
    \cup CoreArgs(s, n, {"fork"}, {None}, {"Branch A"})

----------------------------------------------------------------------------
(* Remote operations issued through ctx.client *)

\* One issued remote operation.  by names the invocation that issued it:
\* <<"execute", n>> for the n-th tool invocation of the session, <<"event", n>>
\* for the n-th handler of the session.
Remote(op, id, directory, by) ==
  [op |-> op, id |-> id, directory |-> directory, agent |-> None,
   model |-> NoModel, system |-> None, tools |-> None, text |-> None,
   noReply |-> FALSE, title |-> None, by |-> by]

Issue(s, r) == log' = [log EXCEPT ![s] = Append(@, r)]

\* error instanceof Error ? error.message : String(error), for the rejection
\* of a remote operation and for the SyntaxError of JSON.parse
Rejection(op) == op \o " failed"
SyntaxErrorMessage == "JSON Parse error"

----------------------------------------------------------------------------
(* execute of the session tool (index.ts:445-670) *)

Returned(e) == e.pc = "returned"
Threw(e) == e.pc = "threw"
Settled(e) == Returned(e) \/ Threw(e)

RECURSIVE CallsIn(_)
CallsIn(S) ==
  IF S = {} THEN 0
  ELSE LET s == CHOOSE x \in S : TRUE IN Len(execs[s]) + CallsIn(S \ {s})

TotalCalls == CallsIn(Sessions)

TargetDirectory(e) == Or(e.args.directory, CtxDirectory(e.sid))

\* args.X || inheritedX
ResolvedAgent(e) == Or(e.args.agent, e.inherited.agent)
ResolvedModelID(e) == Or(e.args.modelID, e.inherited.modelID)
ResolvedProviderID(e) == Or(e.args.providerID, e.inherited.providerID)
ResolvedSystem(e) == Or(e.args.system, e.inherited.system)
ResolvedTools(e) == Or(e.args.tools, e.inherited.tools)

UpdateExec(s, c, e) == execs' = [execs EXCEPT ![s][c] = e]

Awaits(s, c, pc) == c \in 1..Len(execs[s]) /\ execs[s][c].pc = pc

\* Execute with a slip: a message call stages its text before the fetch
ExecuteStagesBeforeFetch(s, a) ==
  /\ TotalCalls < MaxCalls
  /\ LET e == [sid |-> s, args |-> a, pc |-> "messages", inherited |-> NoContext,
               made |-> None, error |-> None, result |-> None]
     IN /\ execs' = [execs EXCEPT ![s] = Append(@, e)]
        /\ Issue(s, Remote("messages", s, CtxDirectory(s),
                           <<"execute", Len(execs[s]) + 1>>))
        /\ pendingMessages' =
             IF a.mode = "message"
             THEN Set(pendingMessages, s,
                      [agent |-> a.agent, modelID |-> a.modelID,
                       providerID |-> a.providerID, system |-> a.system,
                       tools |-> a.tools, text |-> a.text,
                       directory |-> TargetDirectory(e)])
             ELSE pendingMessages
  /\ UNCHANGED <<pendingCompactions, activeCompactions, handlers>>

\* The tool is invoked in session s with arguments a: the synchronous run up
\* to the await of session.messages.
Execute(s, a) ==
  /\ TotalCalls < MaxCalls
  /\ LET e == [sid |-> s, args |-> a, pc |-> "messages", inherited |-> NoContext,
               made |-> None, error |-> None, result |-> None]
     IN /\ execs' = [execs EXCEPT ![s] = Append(@, e)]
        /\ Issue(s, Remote("messages", s, CtxDirectory(s),
                           <<"execute", Len(execs[s]) + 1>>))
  /\ UNCHANGED <<pendingMessages, pendingCompactions, activeCompactions, handlers>>

\* The catch block: the toast is issued and awaited.
Catch(s, c, e, message) ==
  /\ UpdateExec(s, c, [e EXCEPT !.pc = "toast", !.error = message])
  /\ Issue(s, [Remote("showToast", None, None, <<"execute", c>>)
                EXCEPT !.text = "Session operation failed: " \o message])
  /\ UNCHANGED <<pendingMessages, pendingCompactions, activeCompactions, handlers>>

\* The remote operation an invocation suspended at pc awaits
AwaitedOp(e) ==
  CASE e.pc = "marker" -> "prompt"
    [] e.pc = "prompt" /\ e.args.async -> "promptAsync"
    [] OTHER -> e.pc

\* The awaited remote operation of invocation c rejects.
Rejected(s, c) ==
  /\ c \in 1..Len(execs[s])
  /\ execs[s][c].pc \in {"messages", "create", "fork", "update", "prompt", "marker"}
  /\ Catch(s, c, execs[s][c], Rejection(AwaitedOp(execs[s][c])))

\* case "message" with a slip: the prompt is also sent during the call
MessageModeSendsNow(c, e) ==
  /\ pendingMessages' =
       Set(pendingMessages, e.sid,
           [agent |-> ResolvedAgent(e), modelID |-> ResolvedModelID(e),
            providerID |-> ResolvedProviderID(e), system |-> ResolvedSystem(e),
            tools |-> ResolvedTools(e), text |-> e.args.text,
            directory |-> TargetDirectory(e)])
  /\ UpdateExec(e.sid, c, [e EXCEPT !.pc = "returned", !.result =
       IF Truthy(e.args.agent)
       THEN "Message sent to " \o e.args.agent
              \o " agent. They will respond in this conversation."
       ELSE "Message sent. Awaiting response in this conversation."])
  /\ Issue(e.sid, [Remote("prompt", e.sid, TargetDirectory(e), <<"execute", c>>)
       EXCEPT !.text = e.args.text])
  /\ UNCHANGED <<pendingCompactions, activeCompactions, handlers>>

\* case "message" with a slip: an entry already staged is kept
MessageModeKeepsFirst(c, e) ==
  /\ pendingMessages' =
       IF Has(pendingMessages, e.sid) THEN pendingMessages
       ELSE Set(pendingMessages, e.sid,
                [agent |-> ResolvedAgent(e), modelID |-> ResolvedModelID(e),
                 providerID |-> ResolvedProviderID(e), system |-> ResolvedSystem(e),
                 tools |-> ResolvedTools(e), text |-> e.args.text,
                 directory |-> TargetDirectory(e)])
  /\ UpdateExec(e.sid, c, [e EXCEPT !.pc = "returned", !.result =
       IF Truthy(e.args.agent)
       THEN "Message sent to " \o e.args.agent
              \o " agent. They will respond in this conversation."
       ELSE "Message sent. Awaiting response in this conversation."])
  /\ UNCHANGED <<pendingCompactions, activeCompactions, handlers, log>>

\* case "message"
MessageMode(c, e) ==
  /\ pendingMessages' =
       Set(pendingMessages, e.sid,
           [agent |-> ResolvedAgent(e), modelID |-> ResolvedModelID(e),
            providerID |-> ResolvedProviderID(e), system |-> ResolvedSystem(e),
            tools |-> ResolvedTools(e), text |-> e.args.text,
            directory |-> TargetDirectory(e)])
  /\ UpdateExec(e.sid, c, [e EXCEPT !.pc = "returned", !.result =
       IF Truthy(e.args.agent)
       THEN "Message sent to " \o e.args.agent
              \o " agent. They will respond in this conversation."
       ELSE "Message sent. Awaiting response in this conversation."])
  /\ UNCHANGED <<pendingCompactions, activeCompactions, handlers, log>>

\* case "new", up to the await of session.create
NewMode(c, e) ==
  /\ UpdateExec(e.sid, c, [e EXCEPT !.pc = "create"])
  /\ Issue(e.sid, [Remote("create", None, TargetDirectory(e), <<"execute", c>>)
       EXCEPT !.title = Or(e.args.title,
                           IF Truthy(ResolvedAgent(e))
                           THEN "Session via " \o ResolvedAgent(e)
                           ELSE "New session")])
  /\ UNCHANGED <<pendingMessages, pendingCompactions, activeCompactions, handlers>>

NoModelError ==
  "Error: No assistant messages found in session. Cannot determine model for compaction."

\* case "compact" with a slip: only the model is required
CompactModeChecksModelOnly(c, e) ==
  IF ~Truthy(ResolvedModelID(e))
  THEN /\ UpdateExec(e.sid, c, [e EXCEPT !.pc = "returned", !.result = NoModelError])
       /\ UNCHANGED <<pendingMessages, pendingCompactions, activeCompactions,
                      handlers, log>>
  ELSE /\ UpdateExec(e.sid, c, [e EXCEPT !.pc = "marker"])
       /\ Issue(e.sid, [Remote("prompt", e.sid, TargetDirectory(e), <<"execute", c>>)
            EXCEPT !.noReply = TRUE,
                   !.text = IF Truthy(e.args.agent)
                            THEN "[Session will compact after this response - "
                                   \o e.args.agent \o " agent will continue]"
                            ELSE "[Session will compact after this response]"])
       /\ UNCHANGED <<pendingMessages, pendingCompactions, activeCompactions, handlers>>

\* case "compact" with a slip: only the provider is required
CompactModeChecksProviderOnly(c, e) ==
  IF ~Truthy(ResolvedProviderID(e))
  THEN /\ UpdateExec(e.sid, c, [e EXCEPT !.pc = "returned", !.result = NoModelError])
       /\ UNCHANGED <<pendingMessages, pendingCompactions, activeCompactions,
                      handlers, log>>
  ELSE /\ UpdateExec(e.sid, c, [e EXCEPT !.pc = "marker"])
       /\ Issue(e.sid, [Remote("prompt", e.sid, TargetDirectory(e), <<"execute", c>>)
            EXCEPT !.noReply = TRUE,
                   !.text = IF Truthy(e.args.agent)
                            THEN "[Session will compact after this response - "
                                   \o e.args.agent \o " agent will continue]"
                            ELSE "[Session will compact after this response]"])
       /\ UNCHANGED <<pendingMessages, pendingCompactions, activeCompactions, handlers>>

\* case "compact", up to the await of the marker prompt
CompactMode(c, e) ==
  IF ~Truthy(ResolvedProviderID(e)) \/ ~Truthy(ResolvedModelID(e))
  THEN /\ UpdateExec(e.sid, c, [e EXCEPT !.pc = "returned", !.result = NoModelError])
       /\ UNCHANGED <<pendingMessages, pendingCompactions, activeCompactions,
                      handlers, log>>
  ELSE /\ UpdateExec(e.sid, c, [e EXCEPT !.pc = "marker"])
       /\ Issue(e.sid, [Remote("prompt", e.sid, TargetDirectory(e), <<"execute", c>>)
            EXCEPT !.noReply = TRUE,
                   !.text = IF Truthy(e.args.agent)
                            THEN "[Session will compact after this response - "
                                   \o e.args.agent \o " agent will continue]"
                            ELSE "[Session will compact after this response]"])
       /\ UNCHANGED <<pendingMessages, pendingCompactions, activeCompactions, handlers>>

\* case "fork", up to the await of session.fork
ForkMode(c, e) ==
  /\ UpdateExec(e.sid, c, [e EXCEPT !.pc = "fork"])
  /\ Issue(e.sid, Remote("fork", e.sid, TargetDirectory(e), <<"execute", c>>))
  /\ UNCHANGED <<pendingMessages, pendingCompactions, activeCompactions, handlers>>

\* session.messages resolves with msgs: context inheritance and the switch
MessagesResolved(s, c, msgs) ==
  /\ Awaits(s, c, "messages")
  /\ LET e == [execs[s][c] EXCEPT !.inherited = Inherited(msgs)]
     IN CASE e.args.mode = "message" -> MessageMode(c, e)
          [] e.args.mode = "new" -> NewMode(c, e)
          [] e.args.mode = "compact" -> CompactMode(c, e)
          [] e.args.mode = "fork" -> ForkMode(c, e)

\* Identifier of the session the backend makes for invocation c of session s
CreatedId(s, c) == "new-" \o s \o "-" \o ToString(c)
ForkedId(s, c) == "fork-" \o s \o "-" \o ToString(c)

\* The model of the first prompt of case "new" and case "fork"
FirstPromptModel(e) ==
  IF Truthy(ResolvedModelID(e))
  THEN [modelID |-> ResolvedModelID(e), providerID |-> ResolvedProviderID(e)]
  ELSE NoModel

\* The first prompt into session id (promptAsync when args.async).  Evaluating
\* the body throws when the tools string does not parse: nothing is issued and
\* control passes to the catch block.
FirstPrompt(c, e, id) ==
  LET agent == Or(ResolvedAgent(e), "build")
      tools == ResolvedTools(e)
  IN IF ToolsThrow(tools) THEN Catch(e.sid, c, e, SyntaxErrorMessage)
     ELSE /\ UpdateExec(e.sid, c, [e EXCEPT !.pc = "prompt"])
          /\ Issue(e.sid,
               [Remote(IF e.args.async THEN "promptAsync" ELSE "prompt", id,
                       TargetDirectory(e), <<"execute", c>>)
                EXCEPT !.agent = agent, !.model = FirstPromptModel(e),
                       !.system = ResolvedSystem(e), !.tools = ToolsField(tools),
                       !.text = e.args.text])
          /\ UNCHANGED <<pendingMessages, pendingCompactions, activeCompactions,
                         handlers>>

\* CreateResolved with a slip: the first prompt goes to the invoking session
CreateResolvedPromptsInvoker(s, c) ==
  /\ Awaits(s, c, "create")
  /\ FirstPrompt(c, [execs[s][c] EXCEPT !.made = CreatedId(s, c)], s)

\* session.create resolves
CreateResolved(s, c) ==
  /\ Awaits(s, c, "create")
  /\ FirstPrompt(c, [execs[s][c] EXCEPT !.made = CreatedId(s, c)], CreatedId(s, c))

\* ForkResolved with a slip: the title is never applied
ForkResolvedSkipsTitle(s, c) ==
  /\ Awaits(s, c, "fork")
  /\ FirstPrompt(c, [execs[s][c] EXCEPT !.made = ForkedId(s, c)], ForkedId(s, c))

\* session.fork resolves: the title update when a title was given, else the
\* first prompt
ForkResolved(s, c) ==
  /\ Awaits(s, c, "fork")
  /\ LET e == [execs[s][c] EXCEPT !.made = ForkedId(s, c)]
     IN IF Truthy(e.args.title)
        THEN /\ UpdateExec(s, c, [e EXCEPT !.pc = "update"])
             /\ Issue(s, [Remote("update", e.made, TargetDirectory(e), <<"execute", c>>)
                           EXCEPT !.title = e.args.title])
             /\ UNCHANGED <<pendingMessages, pendingCompactions, activeCompactions,
                            handlers>>
        ELSE FirstPrompt(c, e, e.made)

\* session.update resolves
UpdateResolved(s, c) ==
  /\ Awaits(s, c, "update")
  /\ FirstPrompt(c, execs[s][c], execs[s][c].made)

\* The first prompt of case "new" or case "fork" resolves: the return string
PromptResolved(s, c) ==
  /\ Awaits(s, c, "prompt")
  /\ LET e == execs[s][c]
         agent == Or(ResolvedAgent(e), "build")
     IN UpdateExec(s, c, [e EXCEPT !.pc = "returned", !.result =
          IF e.args.mode = "new"
          THEN "New session created with " \o agent
                 \o (IF e.args.async THEN " agent (async prompt, ID: " ELSE " agent (ID: ")
                 \o e.made \o ")"
          ELSE "Forked session with " \o agent
                 \o (IF e.args.async THEN " agent (async prompt)" ELSE " agent")
                 \o " - history preserved (ID: " \o e.made \o ")"])
  /\ UNCHANGED <<pendingMessages, pendingCompactions, activeCompactions, handlers, log>>

\* The marker prompt resolves, with a slip: the request is stored as active
MarkerResolvedActivates(s, c) ==
  /\ Awaits(s, c, "marker")
  /\ LET e == execs[s][c]
     IN /\ activeCompactions' =
             Set(activeCompactions, e.sid,
                 [phase |-> "compacting",
                  providerID |-> ResolvedProviderID(e), modelID |-> ResolvedModelID(e),
                  agent |-> ResolvedAgent(e), system |-> ResolvedSystem(e),
                  tools |-> ResolvedTools(e), text |-> e.args.text,
                  directory |-> TargetDirectory(e)])
        /\ UpdateExec(s, c, [e EXCEPT !.pc = "returned", !.result =
             IF Truthy(e.args.agent)
             THEN "I'll compact the session after completing this response, then hand off to "
                    \o e.args.agent \o "."
             ELSE "I'll compact the session after completing this response."])
  /\ UNCHANGED <<pendingMessages, pendingCompactions, handlers, log>>

\* The marker prompt resolves, with a slip: the pending message is dropped
MarkerResolvedClearsRelay(s, c) ==
  /\ Awaits(s, c, "marker")
  /\ LET e == execs[s][c]
     IN /\ pendingCompactions' =
             Set(pendingCompactions, e.sid,
                 [providerID |-> ResolvedProviderID(e), modelID |-> ResolvedModelID(e),
                  agent |-> ResolvedAgent(e), system |-> ResolvedSystem(e),
                  tools |-> ResolvedTools(e), text |-> e.args.text,
                  directory |-> TargetDirectory(e)])
        /\ pendingMessages' = Delete(pendingMessages, e.sid)
        /\ UpdateExec(s, c, [e EXCEPT !.pc = "returned", !.result =
             IF Truthy(e.args.agent)
             THEN "I'll compact the session after completing this response, then hand off to "
                    \o e.args.agent \o "."
             ELSE "I'll compact the session after completing this response."])
  /\ UNCHANGED <<activeCompactions, handlers, log>>

\* The marker prompt resolves, with a slip: summarize is called at once
MarkerResolvedSummarizes(s, c) ==
  /\ Awaits(s, c, "marker")
  /\ LET e == execs[s][c]
     IN /\ pendingCompactions' =
             Set(pendingCompactions, e.sid,
                 [providerID |-> ResolvedProviderID(e), modelID |-> ResolvedModelID(e),
                  agent |-> ResolvedAgent(e), system |-> ResolvedSystem(e),
                  tools |-> ResolvedTools(e), text |-> e.args.text,
                  directory |-> TargetDirectory(e)])
        /\ UpdateExec(s, c, [e EXCEPT !.pc = "returned", !.result =
             IF Truthy(e.args.agent)
             THEN "I'll compact the session after completing this response, then hand off to "
                    \o e.args.agent \o "."
             ELSE "I'll compact the session after completing this response."])
        /\ Issue(s, Remote("summarize", s, TargetDirectory(e), <<"execute", c>>))
  /\ UNCHANGED <<pendingMessages, activeCompactions, handlers>>

\* The marker prompt of case "compact" resolves: the request is staged
MarkerResolved(s, c) ==
  /\ Awaits(s, c, "marker")
  /\ LET e == execs[s][c]
     IN /\ pendingCompactions' =
             Set(pendingCompactions, e.sid,
                 [providerID |-> ResolvedProviderID(e), modelID |-> ResolvedModelID(e),
                  agent |-> ResolvedAgent(e), system |-> ResolvedSystem(e),
                  tools |-> ResolvedTools(e), text |-> e.args.text,
                  directory |-> TargetDirectory(e)])
        /\ UpdateExec(s, c, [e EXCEPT !.pc = "returned", !.result =
             IF Truthy(e.args.agent)
             THEN "I'll compact the session after completing this response, then hand off to "
                    \o e.args.agent \o "."
             ELSE "I'll compact the session after completing this response."])
  /\ UNCHANGED <<pendingMessages, activeCompactions, handlers, log>>

\* tui.showToast resolves: the error is returned as a string
ToastResolved(s, c) ==
  /\ Awaits(s, c, "toast")
  /\ UpdateExec(s, c, [execs[s][c] EXCEPT !.pc = "returned",
                                          !.result = "Error: " \o execs[s][c].error])
  /\ UNCHANGED <<pendingMessages, pendingCompactions, activeCompactions, handlers, log>>

\* tui.showToast rejects inside the catch block: execute rejects
ToastRejected(s, c) ==
  /\ Awaits(s, c, "toast")
  /\ UpdateExec(s, c, [execs[s][c] EXCEPT !.pc = "threw"])
  /\ UNCHANGED <<pendingMessages, pendingCompactions, activeCompactions, handlers, log>>

----------------------------------------------------------------------------
(* The event hook (index.ts:214-325) *)

\* Event kinds delivered on the event channel; the last stands for every kind
\* the hook does not handle.
EventTypes == {"session.idle", "session.compacted", "message.updated"}

\* event.properties.sessionID, None when the event carries none
EventSessions == Sessions \cup {None}

\* One invocation of the hook that took an entry.  branch is the branch taken,
\* state the entry taken from its map, pc where the invocation is suspended,
\* summarize the state of the summarize promise the invocation started
\* without awaiting it.
Handler(branch, pc, state, summarize) ==
  [branch |-> branch, pc |-> pc, state |-> state, summarize |-> summarize]

Began(s, h) == handlers' = [handlers EXCEPT ![s] = Append(@, h)]

\* model: modelID && providerID ? { modelID, providerID } : undefined
PairOrNone(x) ==
  IF Truthy(x.modelID) /\ Truthy(x.providerID)
  THEN [modelID |-> x.modelID, providerID |-> x.providerID]
  ELSE NoModel

\* The prompt that sends a staged entry x to session s
StagedPrompt(s, x, by) ==
  [Remote("prompt", s, x.directory, by)
   EXCEPT !.agent = x.agent, !.model = PairOrNone(x), !.system = x.system,
          !.tools = ToolsField(x.tools), !.text = x.text]

\* IdleRelay with a slip: the entry is not deleted before the prompt
IdleRelayKeepsEntry(s) ==
  LET x == Get(pendingMessages, s)
      n == Len(handlers[s]) + 1
  IN /\ IF ToolsThrow(x.tools)
        THEN /\ Began(s, Handler("relay", "done", x, "none"))
             /\ UNCHANGED log
        ELSE /\ Began(s, Handler("relay", "prompt", x, "none"))
             /\ Issue(s, StagedPrompt(s, x, <<"event", n>>))
     /\ UNCHANGED <<pendingMessages, pendingCompactions, activeCompactions, execs>>

\* IdleRelay with a slip: the relay branch also drops the pending compaction
IdleRelayDropsCompaction(s) ==
  LET x == Get(pendingMessages, s)
      n == Len(handlers[s]) + 1
  IN /\ pendingMessages' = Delete(pendingMessages, s)
     /\ pendingCompactions' = Delete(pendingCompactions, s)
     /\ IF ToolsThrow(x.tools)
        THEN /\ Began(s, Handler("relay", "done", x, "none"))
             /\ UNCHANGED log
        ELSE /\ Began(s, Handler("relay", "prompt", x, "none"))
             /\ Issue(s, StagedPrompt(s, x, <<"event", n>>))
     /\ UNCHANGED <<activeCompactions, execs>>

\* session.idle with a pending message: the entry is deleted and the prompt
\* issued and awaited; a throw while the body is built is swallowed.
IdleRelay(s) ==
  LET x == Get(pendingMessages, s)
      n == Len(handlers[s]) + 1
  IN /\ pendingMessages' = Delete(pendingMessages, s)
     /\ IF ToolsThrow(x.tools)
        THEN /\ Began(s, Handler("relay", "done", x, "none"))
             /\ UNCHANGED log
        ELSE /\ Began(s, Handler("relay", "prompt", x, "none"))
             /\ Issue(s, StagedPrompt(s, x, <<"event", n>>))
     /\ UNCHANGED <<pendingCompactions, activeCompactions, execs>>

\* IdleCompact with a slip: the handler awaits the summarize call
IdleCompactAwaitsSummarize(s) ==
  LET x == Get(pendingCompactions, s)
      n == Len(handlers[s]) + 1
  IN /\ pendingCompactions' = Delete(pendingCompactions, s)
     /\ activeCompactions' =
          Set(activeCompactions, s,
              [phase |-> "compacting", agent |-> x.agent, modelID |-> x.modelID,
               providerID |-> x.providerID, system |-> x.system, tools |-> x.tools,
               text |-> x.text, directory |-> x.directory])
     /\ Issue(s, [Remote("summarize", s, x.directory, <<"event", n>>)
          EXCEPT !.model = [modelID |-> x.modelID, providerID |-> x.providerID]])
     /\ Began(s, Handler("compact", "summarize", x, "pending"))
     /\ UNCHANGED <<pendingMessages, execs>>

\* IdleCompact with a slip: the promoted request stays in its store
IdleCompactKeepsPending(s) ==
  LET x == Get(pendingCompactions, s)
      n == Len(handlers[s]) + 1
  IN /\ activeCompactions' =
          Set(activeCompactions, s,
              [phase |-> "compacting", agent |-> x.agent, modelID |-> x.modelID,
               providerID |-> x.providerID, system |-> x.system, tools |-> x.tools,
               text |-> x.text, directory |-> x.directory])
     /\ Issue(s, [Remote("summarize", s, x.directory, <<"event", n>>)
          EXCEPT !.model = [modelID |-> x.modelID, providerID |-> x.providerID]])
     /\ Began(s, Handler("compact", "done", x, "pending"))
     /\ UNCHANGED <<pendingMessages, pendingCompactions, execs>>

\* IdleCompact with a slip: the tools of the request are not carried over
IdleCompactOmitsTools(s) ==
  LET x == Get(pendingCompactions, s)
      n == Len(handlers[s]) + 1
  IN /\ pendingCompactions' = Delete(pendingCompactions, s)
     /\ activeCompactions' =
          Set(activeCompactions, s,
              [phase |-> "compacting", agent |-> x.agent, modelID |-> x.modelID,
               providerID |-> x.providerID, system |-> x.system, tools |-> None,
               text |-> x.text, directory |-> x.directory])
     /\ Issue(s, [Remote("summarize", s, x.directory, <<"event", n>>)
          EXCEPT !.model = [modelID |-> x.modelID, providerID |-> x.providerID]])
     /\ Began(s, Handler("compact", "done", x, "pending"))
     /\ UNCHANGED <<pendingMessages, execs>>

\* session.idle with a pending compaction and no pending message: the request
\* is promoted and summarize is started, not awaited.
IdleCompact(s) ==
  LET x == Get(pendingCompactions, s)
      n == Len(handlers[s]) + 1
  IN /\ pendingCompactions' = Delete(pendingCompactions, s)
     /\ activeCompactions' =
          Set(activeCompactions, s,
              [phase |-> "compacting", agent |-> x.agent, modelID |-> x.modelID,
               providerID |-> x.providerID, system |-> x.system, tools |-> x.tools,
               text |-> x.text, directory |-> x.directory])
     /\ Issue(s, [Remote("summarize", s, x.directory, <<"event", n>>)
          EXCEPT !.model = [modelID |-> x.modelID, providerID |-> x.providerID]])
     /\ Began(s, Handler("compact", "done", x, "pending"))
     /\ UNCHANGED <<pendingMessages, execs>>

\* Compacted with a slip: the active compactions of every session are dropped
CompactedClearsAll(s) ==
  LET x == Get(activeCompactions, s)
  IN /\ activeCompactions' = EmptyMap
     /\ Began(s, Handler("compacted", "settle",
                 [agent |-> x.agent, modelID |-> x.modelID, providerID |-> x.providerID,
                  system |-> x.system, tools |-> x.tools, text |-> x.text,
                  directory |-> x.directory], "none"))
     /\ UNCHANGED <<pendingMessages, pendingCompactions, execs, log>>

\* Compacted with a slip: the state is not deleted
CompactedKeepsEntry(s) ==
  LET x == Get(activeCompactions, s)
  IN /\ Began(s, Handler("compacted", "settle",
                 [agent |-> x.agent, modelID |-> x.modelID, providerID |-> x.providerID,
                  system |-> x.system, tools |-> x.tools, text |-> x.text,
                  directory |-> x.directory], "none"))
     /\ UNCHANGED <<pendingMessages, pendingCompactions, activeCompactions, execs, log>>

\* session.compacted with an active compaction: the state is deleted and the
\* settle delay started.
Compacted(s) ==
  LET x == Get(activeCompactions, s)
  IN /\ activeCompactions' = Delete(activeCompactions, s)
     /\ Began(s, Handler("compacted", "settle",
                 [agent |-> x.agent, modelID |-> x.modelID, providerID |-> x.providerID,
                  system |-> x.system, tools |-> x.tools, text |-> x.text,
                  directory |-> x.directory], "none"))
     /\ UNCHANGED <<pendingMessages, pendingCompactions, execs, log>>

\* Event with a slip: the kind of the event is not looked at, every event
\* with a session is handled as session.idle
EventIgnoresType(type, sid) ==
  IF sid = None THEN UNCHANGED vars
  ELSE CASE Has(pendingMessages, sid) -> IdleRelay(sid)
         [] ~Has(pendingMessages, sid) /\ Has(pendingCompactions, sid) -> IdleCompact(sid)
         [] OTHER -> UNCHANGED vars

\* Event with a slip: on session.idle the compaction is checked first
EventChecksCompactionFirst(type, sid) ==
  IF sid = None THEN UNCHANGED vars
  ELSE CASE type = "session.idle" /\ Has(pendingCompactions, sid) -> IdleCompact(sid)
         [] type = "session.idle" /\ ~Has(pendingCompactions, sid)
              /\ Has(pendingMessages, sid) -> IdleRelay(sid)
         [] type = "session.compacted" /\ Has(activeCompactions, sid) -> Compacted(sid)
         [] OTHER -> UNCHANGED vars

\* Event with a slip: session.compacted looks the session up in the pending
\* compactions instead of the active ones
EventLooksUpPending(type, sid) ==
  IF sid = None THEN UNCHANGED vars
  ELSE CASE type = "session.idle" /\ Has(pendingMessages, sid) -> IdleRelay(sid)
         [] type = "session.idle" /\ ~Has(pendingMessages, sid)
              /\ Has(pendingCompactions, sid) -> IdleCompact(sid)
         [] type = "session.compacted" /\ Has(pendingCompactions, sid) ->
              /\ pendingCompactions' = Delete(pendingCompactions, sid)
              /\ Began(sid, Handler("compacted", "settle",
                        Get(pendingCompactions, sid), "none"))
              /\ UNCHANGED <<pendingMessages, activeCompactions, execs, log>>
         [] OTHER -> UNCHANGED vars

\* The hook is invoked with an event of the given type and session
Event(type, sid) ==
  IF sid = None THEN UNCHANGED vars
  ELSE CASE type = "session.idle" /\ Has(pendingMessages, sid) -> IdleRelay(sid)
         [] type = "session.idle" /\ ~Has(pendingMessages, sid)
              /\ Has(pendingCompactions, sid) -> IdleCompact(sid)
         [] type = "session.compacted" /\ Has(activeCompactions, sid) -> Compacted(sid)
         [] OTHER -> UNCHANGED vars

Suspended(s, n, pc) == n \in 1..Len(handlers[s]) /\ handlers[s][n].pc = pc

\* SettleElapsed with a slip: the continuation is sent without its agent
SettleElapsedDropsAgent(s, n) ==
  /\ Suspended(s, n, "settle")
  /\ LET h == handlers[s][n]
     IN IF ToolsThrow(h.state.tools)
        THEN /\ handlers' = [handlers EXCEPT ![s][n].pc = "done"]
             /\ UNCHANGED log
        ELSE /\ handlers' = [handlers EXCEPT ![s][n].pc = "prompt"]
             /\ Issue(s, [StagedPrompt(s, h.state, <<"event", n>>) EXCEPT !.agent = None])
  /\ UNCHANGED <<pendingMessages, pendingCompactions, activeCompactions, execs>>

\* The 100 ms timer of handler n fires: the continuation prompt is issued
SettleElapsed(s, n) ==
  /\ Suspended(s, n, "settle")
  /\ LET h == handlers[s][n]
     IN IF ToolsThrow(h.state.tools)
        THEN /\ handlers' = [handlers EXCEPT ![s][n].pc = "done"]
             /\ UNCHANGED log
        ELSE /\ handlers' = [handlers EXCEPT ![s][n].pc = "prompt"]
             /\ Issue(s, StagedPrompt(s, h.state, <<"event", n>>))
  /\ UNCHANGED <<pendingMessages, pendingCompactions, activeCompactions, execs>>

\* HandlerPromptSettled with a slip: the entry of a relay is put back
HandlerPromptSettledRestores(s, n) ==
  /\ Suspended(s, n, "prompt")
  /\ handlers' = [handlers EXCEPT ![s][n].pc = "done"]
  /\ pendingMessages' =
       IF handlers[s][n].branch = "relay"
       THEN Set(pendingMessages, s, handlers[s][n].state)
       ELSE pendingMessages
  /\ UNCHANGED <<pendingCompactions, activeCompactions, execs, log>>

\* The prompt awaited by handler n settles; a rejection is swallowed
HandlerPromptSettled(s, n) ==
  /\ Suspended(s, n, "prompt")
  /\ handlers' = [handlers EXCEPT ![s][n].pc = "done"]
  /\ UNCHANGED <<pendingMessages, pendingCompactions, activeCompactions, execs, log>>

SummarizePending(s, n) ==
  n \in 1..Len(handlers[s]) /\ handlers[s][n].summarize = "pending"

\* The summarize promise started by handler n resolves
SummarizeResolved(s, n) ==
  /\ SummarizePending(s, n)
  /\ handlers' = [handlers EXCEPT ![s][n].summarize = "resolved"]
  /\ UNCHANGED <<pendingMessages, pendingCompactions, activeCompactions, execs, log>>

\* SummarizeRejected with a slip: the .catch callback leaves the entry
SummarizeRejectedKeepsEntry(s, n) ==
  /\ SummarizePending(s, n)
  /\ handlers' = [handlers EXCEPT ![s][n].summarize = "rejected"]
  /\ UNCHANGED <<pendingMessages, pendingCompactions, activeCompactions, execs, log>>

\* The summarize promise started by handler n rejects: the .catch callback
SummarizeRejected(s, n) ==
  /\ SummarizePending(s, n)
  /\ handlers' = [handlers EXCEPT ![s][n].summarize = "rejected"]
  /\ activeCompactions' = Delete(activeCompactions, s)
  /\ UNCHANGED <<pendingMessages, pendingCompactions, execs, log>>

----------------------------------------------------------------------------
(* The specification *)

Init ==
  /\ pendingMessages = EmptyMap
  /\ pendingCompactions = EmptyMap
  /\ activeCompactions = EmptyMap
  /\ execs = [s \in Sessions |-> <<>>]
  /\ handlers = [s \in Sessions |-> <<>>]
  /\ log = [s \in Sessions |-> <<>>]

\* Invocations of the tool in one session
Ids == 1..MaxCalls

\* Handlers of one session: an invocation stages at most one entry, which is
\* taken by one handler (a pending message) or by two (a compaction request
\* and the active compaction it becomes)
HandlerIds == 1..(2 * MaxCalls)

Next ==
  \/ \E s \in Sessions : \E a \in ArgCore(s, Len(execs[s]) + 1) : Execute(s, a)
  \/ \E s \in Sessions, c \in Ids : \E msgs \in CoreHistories : MessagesResolved(s, c, msgs)
  \/ \E s \in Sessions, c \in Ids : Rejected(s, c)
  \/ \E s \in Sessions, c \in Ids : CreateResolved(s, c)
  \/ \E s \in Sessions, c \in Ids : ForkResolved(s, c)
  \/ \E s \in Sessions, c \in Ids : UpdateResolved(s, c)
  \/ \E s \in Sessions, c \in Ids : PromptResolved(s, c)
  \/ \E s \in Sessions, c \in Ids : MarkerResolved(s, c)
  \/ \E s \in Sessions, c \in Ids : ToastResolved(s, c)
  \/ \E s \in Sessions, c \in Ids : ToastRejected(s, c)
  \/ \E t \in EventTypes : \E sid \in EventSessions : Event(t, sid)
  \/ \E s \in Sessions, n \in HandlerIds : SettleElapsed(s, n)
  \/ \E s \in Sessions, n \in HandlerIds : HandlerPromptSettled(s, n)
  \/ \E s \in Sessions, n \in HandlerIds : SummarizeResolved(s, n)
  \/ \E s \in Sessions, n \in HandlerIds : SummarizeRejected(s, n)

Spec == Init /\ [][Next]_vars

\* One invocation with every combination of arguments and every history, in
\* one session, with the events of that session.
NextArgs ==
  \/ /\ TotalCalls = 0
     /\ \E a \in ArgSpace("s1", 1) : Execute("s1", a)
  \/ \E msgs \in Histories : MessagesResolved("s1", 1, msgs)
  \/ Rejected("s1", 1)
  \/ CreateResolved("s1", 1)
  \/ ForkResolved("s1", 1)
  \/ UpdateResolved("s1", 1)
  \/ PromptResolved("s1", 1)
  \/ MarkerResolved("s1", 1)
  \/ ToastResolved("s1", 1)
  \/ ToastRejected("s1", 1)
  \/ \E t \in EventTypes : \E sid \in EventSessions : Event(t, sid)
  \/ \E n \in HandlerIds : SettleElapsed("s1", n)
  \/ \E n \in HandlerIds : HandlerPromptSettled("s1", n)
  \/ \E n \in HandlerIds : SummarizeResolved("s1", n)
  \/ \E n \in HandlerIds : SummarizeRejected("s1", n)

SpecArgs == Init /\ [][NextArgs]_vars

\* The timer of the settle delay fires: a handler suspended on it resumes.
TimerFires == \E s \in Sessions, n \in HandlerIds : SettleElapsed(s, n)

SpecFair == Spec /\ WF_vars(TimerFires)

----------------------------------------------------------------------------
(* Properties *)

LastOf(q) == q[Len(q)]

\* The remote operations in the log of session s that satisfy P
Ops(s, P(_)) == {i \in 1..Len(log[s]) : P(log[s][i])}

\* The prompt that carries the staged entry x into session s, as issued by
\* the n-th handler of s: the text, directory, agent and system of the entry,
\* its model pair when both halves are present, and its tools as a parsed map.
PromptCarrying(s, x, n) ==
  [op |-> "prompt", id |-> s, directory |-> x.directory, agent |-> x.agent,
   model |-> IF x.modelID \in Falsy \/ x.providerID \in Falsy THEN NoModel
             ELSE [modelID |-> x.modelID, providerID |-> x.providerID],
   system |-> x.system,
   tools |-> IF x.tools \in Falsy THEN None ELSE JSONParse(x.tools),
   text |-> x.text, noReply |-> FALSE, title |-> None, by |-> <<"event", n>>]

\* The tools string of entry x is present and is not JSON
Unparseable(x) == x.tools \notin Falsy /\ ParseThrows(x.tools)

\* An idle event for s is handled while a pending message exists for s
RelayStep(s) == Has(pendingMessages, s) /\ Event("session.idle", s)

\* C1 (as stated): an idle event for S handled while a PendingRelay exists for
\* S removes the entry, issues exactly one prompt to S that carries the
\* entry's payload, and leaves PendingCompaction and ActiveCompaction as they
\* were (so no summarize call is issued).
C1_RelayAlwaysSent ==
  [][\A s \in Sessions : RelayStep(s) =>
       /\ ~Has(pendingMessages', s)
       /\ log' = [log EXCEPT ![s] =
            Append(@, PromptCarrying(s, pendingMessages[s], Len(handlers[s]) + 1))]
       /\ pendingCompactions' = pendingCompactions
       /\ activeCompactions' = activeCompactions]_vars

\* C1 (amended): an idle event for S handled while a PendingRelay exists for S
\* removes the entry and leaves PendingCompaction and ActiveCompaction as they
\* were; it issues exactly one remote operation, the prompt to S that carries
\* the entry's payload, unless the entry's tools string is present and is not
\* JSON, in which case it issues no remote operation at all.
C1_RelayOnIdle ==
  [][\A s \in Sessions : RelayStep(s) =>
       /\ ~Has(pendingMessages', s)
       /\ log' = [log EXCEPT ![s] =
            IF Unparseable(pendingMessages[s]) THEN @
            ELSE Append(@, PromptCarrying(s, pendingMessages[s], Len(handlers[s]) + 1))]
       /\ pendingCompactions' = pendingCompactions
       /\ activeCompactions' = activeCompactions]_vars

\* A relay was sent on idle while a compaction request for the same session
\* stayed pending.
C1_Witness ==
  \E s \in Sessions :
    /\ Has(pendingCompactions, s)
    /\ ~Has(pendingMessages, s)
    /\ handlers[s] # <<>>
    /\ LastOf(handlers[s]).branch = "relay"
    /\ log[s] # <<>>
    /\ LastOf(log[s]) = PromptCarrying(s, LastOf(handlers[s]).state, Len(handlers[s]))

\* The fields a compaction request and an active compaction share
PayloadFields ==
  {"agent", "providerID", "modelID", "system", "tools", "text", "directory"}

\* The summarize call for the request x of session s, as issued by handler n
SummarizeFor(s, x, n) ==
  [op |-> "summarize", id |-> s, directory |-> x.directory, agent |-> None,
   model |-> [modelID |-> x.modelID, providerID |-> x.providerID],
   system |-> None, tools |-> None, text |-> None, noReply |-> FALSE,
   title |-> None, by |-> <<"event", n>>]

\* An idle event for s is handled while s has a pending compaction and no
\* pending message
PromoteStep(s) ==
  ~Has(pendingMessages, s) /\ Has(pendingCompactions, s) /\ Event("session.idle", s)

\* C2: an idle event for S handled while no PendingRelay and a
\* PendingCompaction exist for S removes the PendingCompaction, creates an
\* ActiveCompaction for S with the same agent, providerID, modelID, system,
\* tools, text and directory, and issues exactly one remote operation, the
\* summarize call for S with that providerID and modelID; no prompt is sent.
C2_PromoteOnIdle ==
  [][\A s \in Sessions : PromoteStep(s) =>
       /\ ~Has(pendingCompactions', s)
       /\ Has(activeCompactions', s)
       /\ \A f \in PayloadFields : activeCompactions'[s][f] = pendingCompactions[s][f]
       /\ log' = [log EXCEPT ![s] =
            Append(@, SummarizeFor(s, pendingCompactions[s], Len(handlers[s]) + 1))]
       /\ pendingMessages' = pendingMessages]_vars

\* A compaction request was promoted: the active compaction carries the
\* payload the handler took and the summarize call is the last operation.
C2_Witness ==
  \E s \in Sessions :
    /\ Has(activeCompactions, s)
    /\ ~Has(pendingCompactions, s)
    /\ handlers[s] # <<>>
    /\ LastOf(handlers[s]).branch = "compact"
    /\ activeCompactions[s].tools \notin Falsy
    /\ activeCompactions[s].text = LastOf(handlers[s]).state.text
    /\ LastOf(log[s]) = SummarizeFor(s, LastOf(handlers[s]).state, Len(handlers[s]))

\* A compacted event for s is handled while s has an active compaction
CompactedStep(s) == Has(activeCompactions, s) /\ Event("session.compacted", s)

\* The timer of the n-th handler of s fires
SettleStep(s, n) == Suspended(s, n, "settle") /\ SettleElapsed(s, n)

\* The n-th handler of s took an active compaction
TookCompaction(s, n) == n \in 1..Len(handlers[s]) /\ handlers[s][n].branch = "compacted"

\* The operations handler n of s has issued
IssuedBy(s, n) == {i \in 1..Len(log[s]) : log[s][i].by = <<"event", n>>}

\* The compacted event removes the entry and suspends on the timer with the
\* entry's payload, having issued nothing.
EntryRemovedBeforeDelay(s) ==
  /\ ~Has(activeCompactions', s)
  /\ log' = log
  /\ Len(handlers'[s]) = Len(handlers[s]) + 1
  /\ LastOf(handlers'[s]).pc = "settle"
  /\ \A f \in PayloadFields : LastOf(handlers'[s]).state[f] = activeCompactions[s][f]

\* C3 (as stated): a compacted event for S handled while an ActiveCompaction
\* exists removes the entry before the settle delay starts, and exactly one
\* prompt is sent to S after the delay has elapsed, carrying the staged
\* payload.
C3_ContinuationAlwaysSent ==
  [][/\ \A s \in Sessions : CompactedStep(s) => EntryRemovedBeforeDelay(s)
     /\ \A s \in Sessions, n \in HandlerIds : SettleStep(s, n) =>
          log' = [log EXCEPT ![s] = Append(@, PromptCarrying(s, handlers[s][n].state, n))]
     /\ \A s \in Sessions, n \in HandlerIds : TookCompaction(s, n)' =>
          Cardinality(IssuedBy(s, n)') = IF handlers'[s][n].pc = "settle" THEN 0 ELSE 1]_vars

\* C3 (amended): a compacted event for S handled while an ActiveCompaction
\* exists removes the entry before the settle delay starts and issues nothing
\* until the delay has elapsed; when it has, exactly one prompt carrying the
\* staged payload is sent to S, unless the staged tools string is present and
\* is not JSON, in which case no prompt is sent; the handler issues nothing
\* else.
C3_ContinuationAfterDelay ==
  [][/\ \A s \in Sessions : CompactedStep(s) => EntryRemovedBeforeDelay(s)
     /\ \A s \in Sessions, n \in HandlerIds : SettleStep(s, n) =>
          log' = [log EXCEPT ![s] =
            IF Unparseable(handlers[s][n].state) THEN @
            ELSE Append(@, PromptCarrying(s, handlers[s][n].state, n))]
     /\ \A s \in Sessions, n \in HandlerIds : TookCompaction(s, n)' =>
          Cardinality(IssuedBy(s, n)') =
            IF handlers'[s][n].pc = "settle" \/ Unparseable(handlers'[s][n].state)
            THEN 0 ELSE 1]_vars

\* A continuation was sent after the delay: the handler that took the active
\* compaction has issued the prompt that carries its payload, and the entry
\* is gone.
C3_Witness ==
  \E s \in Sessions, n \in HandlerIds :
    /\ TookCompaction(s, n)
    /\ handlers[s][n].pc = "done"
    /\ handlers[s][n].state.agent \notin Falsy
    /\ ~Has(activeCompactions, s)
    /\ \E i \in IssuedBy(s, n) : log[s][i] = PromptCarrying(s, handlers[s][n].state, n)

\* C4: a compacted event for S handled while no ActiveCompaction exists for S
\* changes none of the three stores and issues no remote operation.
C4_CompactedWithoutActive ==
  [][\A s \in Sessions :
       (~Has(activeCompactions, s) /\ Event("session.compacted", s)) =>
         UNCHANGED <<pendingMessages, pendingCompactions, activeCompactions, log>>]_vars

\* A session with a pending message and a pending compaction and no active
\* compaction, where a compacted event finds nothing to continue
C4_Witness ==
  \E s \in Sessions :
    /\ ~Has(activeCompactions, s)
    /\ Has(pendingMessages, s)
    /\ Has(pendingCompactions, s)

\* The prompts with text t sent into session s itself, the marker aside
SentTo(s, t) ==
  {i \in 1..Len(log[s]) :
     /\ log[s][i].op \in {"prompt", "promptAsync"}
     /\ log[s][i].id = s
     /\ log[s][i].text = t
     /\ ~log[s][i].noReply}

\* Invocation c of session s is a compact call that staged the text t
StagedCompaction(s, c, t) ==
  /\ c \in 1..Len(execs[s])
  /\ execs[s][c].args.mode = "compact"
  /\ execs[s][c].args.text = t
  /\ Returned(execs[s][c])
  /\ execs[s][c].error = None
  /\ execs[s][c].result # NoModelError

\* Position i of the log of s holds the marker prompt of invocation c
MarkerAt(s, c, i) ==
  /\ log[s][i].op = "prompt" /\ log[s][i].noReply
  /\ log[s][i].id = s /\ log[s][i].by = <<"execute", c>>

\* Position j of the log of s holds the summarize call of handler m
SummarizeAt(s, m, j) ==
  log[s][j].op = "summarize" /\ log[s][j].id = s /\ log[s][j].by = <<"event", m>>

\* The compacted event taken by handler n of s ends a chain in this order: a
\* compact call injected its marker and staged the text, an idle event
\* promoted it (handler m) and issued summarize, the compacted event took it,
\* and every continuation with the text comes after all of these, from n.
ChainInOrder(s, n) ==
  LET t == handlers[s][n].state.text
  IN \E c \in Ids, m \in 1..(n - 1) :
       /\ StagedCompaction(s, c, t)
       /\ handlers[s][m].branch = "compact" /\ handlers[s][m].state.text = t
       /\ \E i, j \in 1..Len(log[s]) :
            /\ i < j /\ MarkerAt(s, c, i) /\ SummarizeAt(s, m, j)
            /\ \A k \in SentTo(s, t) : j < k /\ log[s][k].by = <<"event", n>>

\* C5 (as stated): once the compacted event has been handled for a staged and
\* promoted compaction and the settle delay is over, the continuation prompt
\* with the staged text has been sent to S exactly once.
C5_ContinuationAlwaysOnce ==
  \A s \in Sessions, n \in HandlerIds :
    (TookCompaction(s, n) /\ handlers[s][n].pc \in {"prompt", "done"}) =>
      Cardinality(SentTo(s, handlers[s][n].state.text)) = 1

\* C5 (amended): when a compact call has staged a request, an idle event has
\* promoted it and a compacted event is handled while the resulting
\* ActiveCompaction is in the store, the settle delay ends, and after it the
\* continuation with the staged text has been sent to S exactly once, or not
\* at all when the staged tools string is present and is not JSON; nothing
\* with that text is sent before the delay ends, and the order is marker
\* injection, staging, idle, summarize call, compacted, settle delay,
\* continuation.  A handler that left the delay never returns to it, so
\* "every delay ends" is "again and again no handler is in its delay".
C5_CompressThenContinue ==
  /\ [](\A s \in Sessions, n \in HandlerIds : TookCompaction(s, n) =>
          /\ Cardinality(SentTo(s, handlers[s][n].state.text)) =
               IF handlers[s][n].pc = "settle" \/ Unparseable(handlers[s][n].state)
               THEN 0 ELSE 1
          /\ ChainInOrder(s, n))
  /\ []<>(\A s \in Sessions, n \in HandlerIds : ~Suspended(s, n, "settle"))

\* The whole chain has run: the continuation of a compaction was sent after
\* the marker and the summarize call, and its prompt has settled.
C5_Witness ==
  \E s \in Sessions, n \in HandlerIds :
    /\ TookCompaction(s, n)
    /\ handlers[s][n].pc = "done"
    /\ Cardinality(SentTo(s, handlers[s][n].state.text)) = 1
    /\ ChainInOrder(s, n)

\* The texts the invocations of session s can carry
Texts(s) == {TextOf(s, n) : n \in Ids}

\* Invocation c of session s is a message call that staged its payload
StagedMessage(s, c) ==
  /\ c \in 1..Len(execs[s])
  /\ execs[s][c].args.mode = "message"
  /\ Returned(execs[s][c])
  /\ execs[s][c].error = None

\* The step in which message call c of session s stages its payload
StagesMessage(s, c) ==
  /\ Awaits(s, c, "messages")
  /\ execs[s][c].args.mode = "message"
  /\ execs'[s][c].pc = "returned"

\* The payload a message call stages: the text and the target directory of
\* the call, every other field the argument or else the inherited value
RelayPayload(e) ==
  [agent |-> Or(e.args.agent, e.inherited.agent),
   modelID |-> Or(e.args.modelID, e.inherited.modelID),
   providerID |-> Or(e.args.providerID, e.inherited.providerID),
   system |-> Or(e.args.system, e.inherited.system),
   tools |-> Or(e.args.tools, e.inherited.tools),
   text |-> e.args.text,
   directory |-> Or(e.args.directory, CtxDirectory(e.sid))]

\* The text t was staged as a relay for s, is no longer in the store, and no
\* idle event took it: a later message call replaced it.
Overwritten(s, t) ==
  /\ \E c \in Ids : StagedMessage(s, c) /\ execs[s][c].args.text = t
  /\ ~(Has(pendingMessages, s) /\ pendingMessages[s].text = t)
  /\ \A n \in 1..Len(handlers[s]) :
       ~(handlers[s][n].branch = "relay" /\ handlers[s][n].state.text = t)

\* C6 (as stated): after two message calls for S, made in this order with no
\* idle event for S handled since the first, the store holds the second
\* call's payload, and the idle event that takes it sends exactly one prompt
\* with the second call's text.
C6_SecondCallWins ==
  \A s \in Sessions :
    (StagedMessage(s, 1) /\ StagedMessage(s, 2)) =>
      /\ handlers[s] = <<>> =>
           /\ Has(pendingMessages, s)
           /\ pendingMessages[s] = RelayPayload(execs[s][2])
      /\ \A n \in 1..Len(handlers[s]) :
           (handlers[s][n].branch = "relay" /\ handlers[s][n].pc = "done") =>
             /\ handlers[s][n].state.text = execs[s][2].args.text
             /\ Cardinality(SentTo(s, execs[s][2].args.text)) = 1

\* C6 (amended): a message call that stages while a PendingRelay for S is
\* still in the store replaces it, so the store holds exactly one entry for
\* S, the payload of the call that staged last (with overlapping calls not
\* necessarily the one invoked last); the next idle event for S removes it
\* and sends exactly one prompt, with that payload's text, or none when its
\* tools string is present and is not JSON; the replaced payload's text is
\* never sent.
C6_LastWriterWins ==
  /\ [][\A s \in Sessions, c \in Ids : StagesMessage(s, c) =>
          /\ Has(pendingMessages', s)
          /\ pendingMessages'[s] = RelayPayload(execs'[s][c])
          /\ Has(pendingMessages, s) =>
               /\ pendingMessages[s].text # execs[s][c].args.text
               /\ \A t \in Texts(s) :
                    t = pendingMessages[s].text => Overwritten(s, t)']_vars
  /\ [][\A s \in Sessions : \A t \in Texts(s) :
          Overwritten(s, t) => Overwritten(s, t)']_vars
  /\ [](\A s \in Sessions : \A t \in Texts(s) : Overwritten(s, t) => SentTo(s, t) = {})
  /\ [][\A s \in Sessions : RelayStep(s) =>
          /\ ~Has(pendingMessages', s)
          /\ SentTo(s, pendingMessages[s].text) = {}
          /\ \A t \in Texts(s) :
               Cardinality(SentTo(s, t)') =
                 IF t = pendingMessages[s].text /\ ~Unparseable(pendingMessages[s])
                 THEN 1 ELSE Cardinality(SentTo(s, t))]_vars

\* Two message calls staged for one session, the first payload was replaced
\* and never sent, and an idle event relayed the other payload.
C6_Witness ==
  \E s \in Sessions, n \in HandlerIds : \E t \in Texts(s) :
    /\ Overwritten(s, t)
    /\ n \in 1..Len(handlers[s])
    /\ handlers[s][n].branch = "relay" /\ handlers[s][n].pc = "done"
    /\ Cardinality(SentTo(s, handlers[s][n].state.text)) = 1
    /\ SentTo(s, t) = {}

\* The names of the remote operations invocation c of session s has issued,
\* in the order of issue
RECURSIVE OpsOf(_, _)
OpsOf(q, by) ==
  IF q = <<>> THEN <<>>
  ELSE (IF q[1].by = by THEN <<q[1].op>> ELSE <<>>) \o OpsOf(Tail(q), by)

OpsBy(s, c) == OpsOf(log[s], <<"execute", c>>)

\* Invocation c of session s is in mode m
InMode(s, c, m) == c \in 1..Len(execs[s]) /\ execs[s][c].args.mode = m

\* C7: a message call issues only the context fetch (and the notification
\* when that fetch fails): it sends no prompt.  Its staging step changes the
\* PendingRelay of S and the call's own state, nothing else, and the call
\* returns the acknowledgement, which names the agent when one was given.
\* Every prompt that carries the call's text goes to S, is issued by a
\* handler of an idle event for S that took the entry, and so after the
\* staging.
C7_MessageDeferred ==
  /\ [](\A s \in Sessions, c \in Ids : InMode(s, c, "message") =>
          LET e == execs[s][c] IN
          /\ OpsBy(s, c) = IF e.error = None THEN <<"messages">>
                           ELSE <<"messages", "showToast">>
          /\ StagedMessage(s, c) =>
               e.result = IF e.args.agent \in Falsy
                          THEN "Message sent. Awaiting response in this conversation."
                          ELSE "Message sent to " \o e.args.agent
                                 \o " agent. They will respond in this conversation."
          /\ \A i \in 1..Len(log[s]) : log[s][i].text = e.args.text =>
               /\ i \in SentTo(s, e.args.text)
               /\ StagedMessage(s, c)
               /\ \E n \in 1..Len(handlers[s]) :
                    /\ log[s][i].by = <<"event", n>>
                    /\ handlers[s][n].branch = "relay"
                    /\ handlers[s][n].state = RelayPayload(e))
  /\ [][\A s \in Sessions, c \in Ids : StagesMessage(s, c) =>
          /\ Has(pendingMessages', s)
          /\ pendingMessages'[s] = RelayPayload(execs'[s][c])
          /\ \A o \in Sessions \ {s} :
               /\ Has(pendingMessages', o) = Has(pendingMessages, o)
               /\ Has(pendingMessages, o) => pendingMessages'[o] = pendingMessages[o]
          /\ UNCHANGED <<pendingCompactions, activeCompactions, handlers, log>>]_vars

\* A message call returned its acknowledgement having issued the fetch only,
\* and a later idle event relayed its text.
C7_Witness ==
  \E s \in Sessions, c \in Ids :
    /\ StagedMessage(s, c)
    /\ OpsBy(s, c) = <<"messages">>
    /\ Cardinality(SentTo(s, execs[s][c].args.text)) = 1

\* The step in which compact call c of session s stages its request
StagesCompaction(s, c) ==
  /\ Awaits(s, c, "marker")
  /\ execs'[s][c].pc = "returned"

\* The summarize calls in the log of session s
Summarizes(s) == {j \in 1..Len(log[s]) : log[s][j].op = "summarize"}

\* C8: a compact call issues the context fetch, then the no-reply marker
\* prompt into S, and nothing else but the notification of a failure: no
\* summarize.  It stages only once the marker prompt has resolved, in a step
\* that issues nothing.  Every summarize call is for S and is issued by a
\* handler of an idle event for S that took a staged request whose marker
\* precedes it, in the very step that takes the request.
C8_CompactDeferred ==
  /\ [](\A s \in Sessions, c \in Ids : InMode(s, c, "compact") =>
          LET e == execs[s][c] IN
          /\ OpsBy(s, c) \in {<<"messages">>, <<"messages", "prompt">>,
                              <<"messages", "showToast">>,
                              <<"messages", "prompt", "showToast">>}
          /\ StagedCompaction(s, c, e.args.text) => OpsBy(s, c) = <<"messages", "prompt">>
          /\ ~StagedCompaction(s, c, e.args.text) =>
               ~(Has(pendingCompactions, s) /\ pendingCompactions[s].text = e.args.text)
          /\ \A i \in 1..Len(log[s]) :
               (log[s][i].by = <<"execute", c>> /\ log[s][i].op = "prompt") =>
                 log[s][i].noReply /\ log[s][i].id = s)
  /\ [](\A s \in Sessions : \A j \in Summarizes(s) :
          /\ log[s][j].id = s
          /\ \E m \in 1..Len(handlers[s]), c \in Ids :
               /\ SummarizeAt(s, m, j)
               /\ handlers[s][m].branch = "compact"
               /\ StagedCompaction(s, c, handlers[s][m].state.text)
               /\ \E i \in 1..(j - 1) : MarkerAt(s, c, i))
  /\ [][\A s \in Sessions, c \in Ids : StagesCompaction(s, c) =>
          /\ Has(pendingCompactions', s)
          /\ pendingCompactions'[s].text = execs[s][c].args.text
          /\ UNCHANGED <<pendingMessages, activeCompactions, handlers, log>>]_vars
  /\ [][\A s \in Sessions : Summarizes(s)' # Summarizes(s) =>
          /\ Has(pendingCompactions, s) /\ ~Has(pendingCompactions', s)
          /\ Event("session.idle", s)]_vars

\* A compact call returned having issued the fetch and the marker only, and a
\* later idle event issued the summarize call for its request.
C8_Witness ==
  \E s \in Sessions, c \in Ids, m \in HandlerIds :
    /\ InMode(s, c, "compact")
    /\ StagedCompaction(s, c, execs[s][c].args.text)
    /\ OpsBy(s, c) = <<"messages", "prompt">>
    /\ m \in 1..Len(handlers[s])
    /\ handlers[s][m].branch = "compact"
    /\ handlers[s][m].state.text = execs[s][c].args.text
    /\ \E j \in Summarizes(s) : SummarizeAt(s, m, j)

\* The context fetch of invocation c of session s has resolved
Fetched(s, c) ==
  /\ c \in 1..Len(execs[s])
  /\ execs[s][c].pc # "messages"
  /\ execs[s][c].error # Rejection("messages")

\* Neither the arguments nor the inherited context give both halves of the
\* provider and model pair
NoPair(e) ==
  \/ Or(e.args.providerID, e.inherited.providerID) \in Falsy
  \/ Or(e.args.modelID, e.inherited.modelID) \in Falsy

\* C9: a compact call whose context fetch resolved and that has no provider
\* and model pair, explicit or inherited, has returned the error string, has
\* issued the context fetch and no other remote call, and staged nothing; the
\* step that decides it leaves the stores and the log as they were.
C9_NoModelNoCompaction ==
  /\ [](\A s \in Sessions, c \in Ids :
          (InMode(s, c, "compact") /\ Fetched(s, c) /\ NoPair(execs[s][c])) =>
            /\ Returned(execs[s][c])
            /\ execs[s][c].result = "Error: No assistant messages found in session. "
                                      \o "Cannot determine model for compaction."
            /\ OpsBy(s, c) = <<"messages">>
            /\ ~(Has(pendingCompactions, s)
                   /\ pendingCompactions[s].text = execs[s][c].args.text))
  /\ [][\A s \in Sessions, c \in Ids :
          (InMode(s, c, "compact") /\ ~Fetched(s, c) /\ Fetched(s, c)'
             /\ NoPair(execs'[s][c])) =>
            UNCHANGED <<pendingMessages, pendingCompactions, activeCompactions,
                        handlers, log>>]_vars

\* A compact call with one half of the pair given and nothing to inherit
\* returned the error string.
C9_Witness ==
  \E s \in Sessions, c \in Ids :
    /\ InMode(s, c, "compact") /\ Fetched(s, c)
    /\ execs[s][c].args.providerID \notin Falsy
    /\ NoPair(execs[s][c])
    /\ execs[s][c].result = NoModelError

\* C10: every invocation that has finished returned a string; when a remote
\* call failed the string is "Error: " followed by the failure's message and
\* exactly one notification was attempted, last of all.
C10_NeverPropagates ==
  \A s \in Sessions, c \in Ids :
    (c \in 1..Len(execs[s]) /\ Settled(execs[s][c])) =>
      /\ Returned(execs[s][c])
      /\ execs[s][c].error # None =>
           /\ execs[s][c].result = "Error: " \o execs[s][c].error
           /\ Len(OpsBy(s, c)) > 1
           /\ LastOf(OpsBy(s, c)) = "showToast"


\* Handler m of session s promoted a request and its summarize call failed
SummarizeFailed(s, m) ==
  /\ m \in 1..Len(handlers[s])
  /\ handlers[s][m].branch = "compact"
  /\ handlers[s][m].summarize = "rejected"

\* The step in which the summarize call of handler m of session s fails
SummarizeFails(s, m) ==
  /\ SummarizePending(s, m)
  /\ handlers'[s][m].summarize = "rejected"

\* The handlers of session s that took, on a compacted event, the active
\* compaction with text t
TakenBy(s, t) ==
  {n \in 1..Len(handlers[s]) :
     handlers[s][n].branch = "compacted" /\ handlers[s][n].state.text = t}

\* C11 (as stated): once the summarize call of a promotion has failed, no
\* continuation prompt with the text of that compaction has been sent.
C11_FailedNeverContinues ==
  \A s \in Sessions, m \in HandlerIds :
    SummarizeFailed(s, m) => SentTo(s, handlers[s][m].state.text) = {}

\* C11 (amended): the step in which the summarize call fails leaves S with no
\* ActiveCompaction, issues nothing (no retry, no notification) and touches
\* nothing else; the promotion's summarize call stays the only one it issued
\* and the event hook never issues a notification.  After the failure no
\* compacted event takes that compaction, so a continuation with its text
\* exists only if a compacted event had taken it before the failure.
C11_FailureDropsActive ==
  /\ [][\A s \in Sessions, m \in HandlerIds : SummarizeFails(s, m) =>
          /\ ~Has(activeCompactions', s)
          /\ UNCHANGED <<pendingMessages, pendingCompactions, execs, log>>]_vars
  /\ [][\A s \in Sessions, m \in HandlerIds : SummarizeFailed(s, m) =>
          /\ SummarizeFailed(s, m)'
          /\ TakenBy(s, handlers[s][m].state.text)'
               = TakenBy(s, handlers[s][m].state.text)]_vars
  /\ [](\A s \in Sessions, m \in HandlerIds : SummarizeFailed(s, m) =>
          /\ ~(Has(activeCompactions, s)
                 /\ activeCompactions[s].text = handlers[s][m].state.text)
          /\ Cardinality({j \in Summarizes(s) : SummarizeAt(s, m, j)}) = 1
          /\ TakenBy(s, handlers[s][m].state.text) = {} =>
               SentTo(s, handlers[s][m].state.text) = {})
  /\ [](\A s \in Sessions : \A i \in 1..Len(log[s]) :
          log[s][i].op = "showToast" => log[s][i].by[1] = "execute")

\* A summarize call failed while its compaction was still active: the entry
\* is gone, nothing took it, and no continuation was sent.
C11_Witness ==
  \E s \in Sessions, m \in HandlerIds :
    /\ SummarizeFailed(s, m)
    /\ ~Has(activeCompactions, s)
    /\ TakenBy(s, handlers[s][m].state.text) = {}
    /\ SentTo(s, handlers[s][m].state.text) = {}


\* An idle event for s is handled while s has both a pending message and a
\* pending compaction
BothStep(s) ==
  Has(pendingMessages, s) /\ Has(pendingCompactions, s) /\ Event("session.idle", s)

\* C12 (as stated): an idle event for S handled while both entries exist
\* sends the relay (exactly one prompt, with the relay's payload) and leaves
\* the PendingCompaction in place.
C12_RelayFirstAlwaysSent ==
  [][\A s \in Sessions : BothStep(s) =>
       /\ log' = [log EXCEPT ![s] =
            Append(@, PromptCarrying(s, pendingMessages[s], Len(handlers[s]) + 1))]
       /\ pendingCompactions' = pendingCompactions]_vars

\* C12 (amended): an idle event for S handled while both entries exist takes
\* the relay only: it removes the PendingRelay, sends its prompt (or nothing
\* when its tools string is present and is not JSON), issues no summarize and
\* leaves the PendingCompaction and the ActiveCompaction stores as they were.
\* A PendingCompaction leaves its store only in a step that handles an idle
\* event for S while S has no PendingRelay, and that step promotes it and
\* issues its summarize call; every such idle event does so.
C12_RelayBeforeCompaction ==
  /\ [][\A s \in Sessions : BothStep(s) =>
          /\ ~Has(pendingMessages', s)
          /\ log' = [log EXCEPT ![s] =
               IF Unparseable(pendingMessages[s]) THEN @
               ELSE Append(@, PromptCarrying(s, pendingMessages[s], Len(handlers[s]) + 1))]
          /\ UNCHANGED <<pendingCompactions, activeCompactions>>]_vars
  /\ [][\A s \in Sessions : (Has(pendingCompactions, s) /\ ~Has(pendingCompactions', s)) =>
          /\ PromoteStep(s)
          /\ activeCompactions'[s].text = pendingCompactions[s].text
          /\ log' = [log EXCEPT ![s] =
               Append(@, SummarizeFor(s, pendingCompactions[s], Len(handlers[s]) + 1))]]_vars
  /\ [][\A s \in Sessions : PromoteStep(s) =>
          ~Has(pendingCompactions', s) /\ Has(activeCompactions', s)]_vars

\* A compact call and then a message call were made in one session; an idle
\* event sent the relay, and a later idle event promoted the compaction.
C12_Witness ==
  \E s \in Sessions, n \in HandlerIds, m \in HandlerIds :
    /\ InMode(s, 1, "compact") /\ InMode(s, 2, "message")
    /\ n < m /\ m \in 1..Len(handlers[s])
    /\ handlers[s][n].branch = "relay"
    /\ handlers[s][n].state.text = execs[s][2].args.text
    /\ Cardinality(SentTo(s, execs[s][2].args.text)) = 1
    /\ handlers[s][m].branch = "compact"
    /\ handlers[s][m].state.text = execs[s][1].args.text
    /\ \E j \in Summarizes(s) : SummarizeAt(s, m, j)


\* The entry of s in map m is present and is not the same after the step
Leaves(m, s) == Has(m, s) /\ (Has(m', s) => m'[s] # m[s])

\* The entry of s in map m is new after the step
Enters(m, s) == ~Has(m, s) /\ Has(m', s)

\* Message call c staged for s and its payload is no longer pending
RelayGone(s, c) ==
  StagedMessage(s, c) /\ ~(Has(pendingMessages, s)
                             /\ pendingMessages[s].text = execs[s][c].args.text)

\* Compact call c staged for s and its request is no longer pending
RequestGone(s, c) ==
  /\ c \in 1..Len(execs[s])
  /\ StagedCompaction(s, c, execs[s][c].args.text)
  /\ ~(Has(pendingCompactions, s)
         /\ pendingCompactions[s].text = execs[s][c].args.text)

\* Handler m promoted a request of s and the active compaction is gone
ActiveGone(s, m) ==
  /\ m \in 1..Len(handlers[s])
  /\ handlers[s][m].branch = "compact"
  /\ ~(Has(activeCompactions, s)
         /\ activeCompactions[s].text = handlers[s][m].state.text)

\* C13 (as stated): an entry of a store is removed or replaced only in a
\* step that handles the matching event: an idle event for the PendingRelay
\* and the PendingCompaction, a compacted event for the ActiveCompaction, and
\* that step removes it.
C13_OnlyEventsDestroy ==
  [][\A s \in Sessions :
       /\ Leaves(pendingMessages, s) => RelayStep(s) /\ ~Has(pendingMessages', s)
       /\ Leaves(pendingCompactions, s) => PromoteStep(s) /\ ~Has(pendingCompactions', s)
       /\ Leaves(activeCompactions, s) =>
            CompactedStep(s) /\ ~Has(activeCompactions', s)]_vars

\* C13 (amended): a PendingRelay leaves its store when an idle event for S
\* takes it or a later message call for S replaces it; a PendingCompaction
\* when an idle event for S promotes it or a later compact call for S
\* replaces it; an ActiveCompaction when a compacted event for S takes it, a
\* summarize call of S fails, or a later promotion for S replaces it.
\* Otherwise an entry stays as it is.  Entries are made only by message
\* calls, compact calls and promotions, and an entry that has left its store
\* never comes back.
C13_EntryLifecycle ==
  /\ [][\A s \in Sessions :
          /\ Leaves(pendingMessages, s) =>
               \/ RelayStep(s) /\ ~Has(pendingMessages', s)
               \/ \E c \in Ids : /\ StagesMessage(s, c)
                                 /\ pendingMessages'[s] = RelayPayload(execs'[s][c])
          /\ Leaves(pendingCompactions, s) =>
               \/ PromoteStep(s) /\ ~Has(pendingCompactions', s)
               \/ \E c \in Ids : /\ StagesCompaction(s, c)
                                 /\ pendingCompactions'[s].text = execs[s][c].args.text
          /\ Leaves(activeCompactions, s) =>
               \/ CompactedStep(s) /\ ~Has(activeCompactions', s)
               \/ (\E m \in HandlerIds : SummarizeFails(s, m)) /\ ~Has(activeCompactions', s)
               \/ PromoteStep(s) /\ activeCompactions'[s].text = pendingCompactions[s].text
          /\ Enters(pendingMessages, s) => \E c \in Ids : StagesMessage(s, c)
          /\ Enters(pendingCompactions, s) => \E c \in Ids : StagesCompaction(s, c)
          /\ Enters(activeCompactions, s) => PromoteStep(s)]_vars
  /\ [][\A s \in Sessions :
          /\ \A c \in Ids : /\ RelayGone(s, c) => RelayGone(s, c)'
                            /\ RequestGone(s, c) => RequestGone(s, c)'
          /\ \A m \in HandlerIds : ActiveGone(s, m) => ActiveGone(s, m)']_vars

\* A message call replaced the pending message of an earlier one, and the
\* replacement is still in the store.
C13_Witness ==
  \E s \in Sessions :
    /\ Has(pendingMessages, s)
    /\ \E c \in Ids : RelayGone(s, c) /\ Overwritten(s, execs[s][c].args.text)


\* Handler m of session s made, by promotion, the active compaction s has now
Promoted(s, m) ==
  /\ m \in 1..Len(handlers[s])
  /\ handlers[s][m].branch = "compact"
  /\ Has(activeCompactions, s)
  /\ activeCompactions[s].text = handlers[s][m].state.text

\* C14: an ActiveCompaction of S is removed only in a step that handles a
\* compacted event for S or in which the summarize call issued for that
\* compaction fails; in every other step S keeps an ActiveCompaction.
C14_NoCancellation ==
  [][\A s \in Sessions : (Has(activeCompactions, s) /\ ~Has(activeCompactions', s)) =>
       \/ CompactedStep(s)
       \/ \E m \in HandlerIds : Promoted(s, m) /\ SummarizeFails(s, m)]_vars


\* C15: for every session at most one of the three stores holds an entry.
C15_MutualExclusion ==
  \A s \in Sessions :
    /\ ~(Has(pendingMessages, s) /\ Has(pendingCompactions, s))
    /\ ~(Has(pendingMessages, s) /\ Has(activeCompactions, s))
    /\ ~(Has(pendingCompactions, s) /\ Has(activeCompactions, s))

\* The entry of session o in map m is the same before and after the step
SameEntry(m, o) == Has(m', o) = Has(m, o) /\ (Has(m, o) => m'[o] = m[o])

\* Nothing of session o changes in the step: its entries in the three
\* stores, and the remote calls issued on its behalf
Untouched(o) ==
  /\ SameEntry(pendingMessages, o)
  /\ SameEntry(pendingCompactions, o)
  /\ SameEntry(activeCompactions, o)
  /\ log'[o] = log[o]

\* The step is a step of session s: of one of its tool calls, an event for
\* it that takes effect, a resumption of one of its handlers, or the
\* settling of one of its summarize calls
StepOf(s) == execs'[s] # execs[s] \/ handlers'[s] # handlers[s]

\* C16: a step of session S (a tool call invoked from S, an event for S, the
\* failure of a summarize call of S) changes no entry of another session T
\* and issues nothing on T's behalf; every remote call of the event hook made
\* for S, prompt or summarize, is addressed to S.
C16_SessionIsolation ==
  /\ [][\A s \in Sessions : \A o \in Sessions \ {s} :
          (\/ StepOf(s)
           \/ \E t \in EventTypes : Event(t, s)
           \/ \E m \in HandlerIds : SummarizeFails(s, m)) => Untouched(o)]_vars
  /\ [](\A s \in Sessions : \A i \in 1..Len(log[s]) :
          log[s][i].by[1] = "event" =>
            log[s][i].op \in {"prompt", "summarize"} /\ log[s][i].id = s)

\* One session had its compaction taken by a compacted event while the
\* other session has an active compaction of its own.
C16_Witness ==
  \E s \in Sessions : \E o \in Sessions \ {s} :
    /\ \E n \in HandlerIds : TookCompaction(s, n)
    /\ Has(activeCompactions, o)


\* The stores in which session s has an entry that carries the text t
HeldIn(s, t) ==
  {k \in {"relay", "request", "active"} :
     \/ k = "relay" /\ Has(pendingMessages, s) /\ pendingMessages[s].text = t
     \/ k = "request" /\ Has(pendingCompactions, s) /\ pendingCompactions[s].text = t
     \/ k = "active" /\ Has(activeCompactions, s) /\ activeCompactions[s].text = t}

\* C15 (amended): the payload of one workflow request is in at most one of
\* the three stores at a time; entries of different requests of one session
\* are not excluded from being present together.
C15_OneStorePerRequest ==
  \A s \in Sessions : \A t \in Texts(s) : Cardinality(HeldIn(s, t)) <= 1

\* A session has a pending message and a pending compaction at once, each
\* from its own request.
C15_Witness ==
  \E s \in Sessions :
    /\ Has(pendingMessages, s) /\ Has(pendingCompactions, s)
    /\ HeldIn(s, pendingMessages[s].text) = {"relay"}
    /\ HeldIn(s, pendingCompactions[s].text) = {"request"}


\* C17: the hook invoked with an event that is neither session.idle nor
\* session.compacted, or with an event that carries no session identifier,
\* changes nothing: the three stores stay as they are and no remote call is
\* issued, whatever the stores contain.
C17_OtherEventsIgnored ==
  [][\A t \in EventTypes, sid \in EventSessions :
       ((t \notin {"session.idle", "session.compacted"} \/ sid = None) /\ Event(t, sid)) =>
         UNCHANGED <<pendingMessages, pendingCompactions, activeCompactions, log,
                     handlers, execs>>]_vars

\* A session holds a pending message beside an active compaction: a state in
\* which an idle or a compacted event would act and any other event must not.
C17_Witness ==
  \E s \in Sessions : Has(pendingMessages, s) /\ Has(activeCompactions, s)

\* The hook invoked with an event of kind t for session o takes an entry
Takes(t, o) == Event(t, o) /\ handlers'[o] # handlers[o]

\* C18: the handler that promotes a request has completed as soon as it has
\* issued the summarize call, whatever becomes of that call; and while a
\* summarize call is outstanding every idle event for a session with a
\* pending entry and every compacted event for a session with an active
\* compaction, S included, is handled and takes its entry.
C18_SummarizeNotAwaited ==
  /\ \A s \in Sessions, m \in HandlerIds :
       (m \in 1..Len(handlers[s]) /\ handlers[s][m].branch = "compact") =>
         handlers[s][m].pc = "done"
  /\ \A s \in Sessions, m \in HandlerIds : SummarizePending(s, m) =>
       \A o \in Sessions :
         /\ (Has(pendingMessages, o) \/ Has(pendingCompactions, o)) =>
              ENABLED Takes("session.idle", o)
         /\ Has(activeCompactions, o) => ENABLED Takes("session.compacted", o)

\* While the summarize call of a promotion of S is outstanding, a compacted
\* event for S was handled and an event for the other session took an entry.
C18_Witness ==
  \E s \in Sessions, m \in HandlerIds, n \in HandlerIds :
    /\ SummarizePending(s, m)
    /\ m < n /\ TookCompaction(s, n)
    /\ \E o \in Sessions \ {s} : handlers[o] # <<>>

\* The model half and the provider half of x are both present
HasPair(x) == x.providerID \notin Falsy /\ x.modelID \notin Falsy

\* C19: every PendingCompaction and every ActiveCompaction has a providerID
\* and a modelID; every summarize call carries both; every continuation
\* prompt sent after a compacted event carries the model pair of the entry
\* that was taken.
C19_CompactionHasModel ==
  \A s \in Sessions :
    /\ Has(pendingCompactions, s) => HasPair(pendingCompactions[s])
    /\ Has(activeCompactions, s) => HasPair(activeCompactions[s])
    /\ \A j \in Summarizes(s) : HasPair(log[s][j].model)
    /\ \A n \in 1..Len(handlers[s]) : \A i \in IssuedBy(s, n) :
         handlers[s][n].branch = "compacted" =>
           /\ HasPair(log[s][i].model)
           /\ log[s][i].model = [modelID |-> handlers[s][n].state.modelID,
                                 providerID |-> handlers[s][n].state.providerID]

\* A compact call that gave one half of the pair and inherited the other was
\* promoted and taken, and its continuation prompt carries both.
C19_Witness ==
  \E s \in Sessions, n \in HandlerIds :
    /\ TookCompaction(s, n)
    /\ handlers[s][n].pc = "done"
    /\ InMode(s, 1, "compact")
    /\ execs[s][1].args.providerID \notin Falsy
    /\ execs[s][1].args.modelID \in Falsy
    /\ \E i \in IssuedBy(s, n) :
         log[s][i].model = [modelID |-> execs[s][1].inherited.modelID,
                            providerID |-> execs[s][1].args.providerID]


\* The five fields of the context a request resolves
CtxFields == {"agent", "modelID", "providerID", "system", "tools"}

\* The positions of the assistant messages of a history
AssistantsOf(msgs) == {i \in 1..Len(msgs) : msgs[i].role = "assistant"}

\* What a history gives to inherit: every field of its last assistant
\* message in arrival order, the tools as JSON text; nothing when there is
\* no assistant message
FromLastAssistant(msgs) ==
  IF AssistantsOf(msgs) = {} THEN [f \in CtxFields |-> None]
  ELSE LET k == CHOOSE i \in AssistantsOf(msgs) : \A j \in AssistantsOf(msgs) : j <= i
       IN [f \in CtxFields |->
             IF f = "tools" /\ msgs[k].tools # None THEN JSONStringify(msgs[k].tools)
             ELSE msgs[k][f]]

\* Field f as resolved for invocation e: the explicit value, else the
\* inherited one
Field(e, f) == IF e.args[f] \notin Falsy THEN e.args[f] ELSE e.inherited[f]

\* The first prompts invocation c of session s sent into the session it made
FirstPrompts(s, c) ==
  {i \in 1..Len(log[s]) :
     /\ log[s][i].by = <<"execute", c>>
     /\ log[s][i].op \in {"prompt", "promptAsync"}
     /\ ~log[s][i].noReply}

\* The entries staged by the invocations resolve every field by itself
StagedFieldByField ==
  \A s \in Sessions, c \in Ids : Fetched(s, c) =>
    LET e == execs[s][c] IN
    /\ (Has(pendingMessages, s) /\ pendingMessages[s].text = e.args.text) =>
         \A f \in CtxFields : pendingMessages[s][f] = Field(e, f)
    /\ (Has(pendingCompactions, s) /\ pendingCompactions[s].text = e.args.text) =>
         \A f \in CtxFields : pendingCompactions[s][f] = Field(e, f)
    /\ (Has(activeCompactions, s) /\ activeCompactions[s].text = e.args.text) =>
         \A f \in CtxFields : activeCompactions[s][f] = Field(e, f)

\* C20 (as stated): the staged entries and the first prompt of a new or
\* forked session carry, for each field by itself, the explicit value or
\* else the inherited one, absent when neither exists.
C20_AlwaysFieldByField ==
  /\ StagedFieldByField
  /\ \A s \in Sessions, c \in Ids : \A i \in FirstPrompts(s, c) :
       LET e == execs[s][c] IN
       /\ log[s][i].agent = Field(e, "agent")
       /\ log[s][i].system = Field(e, "system")
       /\ log[s][i].model = [modelID |-> Field(e, "modelID"),
                             providerID |-> Field(e, "providerID")]

\* C20 (amended): what is inherited is the last assistant message's value of
\* each field.  Message and compact calls stage, for each field by itself,
\* the explicit value or else the inherited one, absent when neither exists.
\* The first prompt of a new or forked session resolves system and tools the
\* same way (tools parsed); its agent likewise but "build" when neither
\* exists; it carries a model only when a modelID resolves, and then the
\* resolved modelID with the resolved providerID, which may be absent.
C20_FieldByField ==
  /\ [](\A msgs \in Histories :
          \A f \in CtxFields : Inherited(msgs)[f] = FromLastAssistant(msgs)[f])
  /\ [][\A s \in Sessions, c \in Ids : (~Fetched(s, c) /\ Fetched(s, c)') =>
          \E msgs \in Histories :
            \A f \in CtxFields : execs'[s][c].inherited[f] = FromLastAssistant(msgs)[f]]_vars
  /\ []StagedFieldByField
  /\ [](\A s \in Sessions, c \in Ids : \A i \in FirstPrompts(s, c) :
          LET e == execs[s][c] IN
          /\ log[s][i].agent = IF Field(e, "agent") \in Falsy THEN "build"
                               ELSE Field(e, "agent")
          /\ log[s][i].system = Field(e, "system")
          /\ log[s][i].tools = IF Field(e, "tools") \in Falsy THEN None
                               ELSE JSONParse(Field(e, "tools"))
          /\ log[s][i].model =
               IF Field(e, "modelID") \in Falsy THEN NoModel
               ELSE [modelID |-> Field(e, "modelID"),
                     providerID |-> Field(e, "providerID")])

\* A message call staged an explicit agent beside an inherited model, and a
\* new or fork call sent a first prompt with an inherited agent and an
\* explicit system.
C20_Witness ==
  \E s \in Sessions, c \in Ids :
    /\ Fetched(s, c)
    /\ execs[s][c].inherited.modelID \notin Falsy
    /\ execs[s][c].args.modelID \in Falsy
    /\ execs[s][c].args.system \notin Falsy
    /\ \/ /\ Has(pendingMessages, s)
          /\ pendingMessages[s].text = execs[s][c].args.text
          /\ pendingMessages[s].modelID = execs[s][c].inherited.modelID
          /\ pendingMessages[s].system = execs[s][c].args.system
       \/ \E i \in FirstPrompts(s, c) :
            /\ log[s][i].model.modelID = execs[s][c].inherited.modelID
            /\ log[s][i].system = execs[s][c].args.system


\* p is an initial part of q
IsPrefix(p, q) == Len(p) <= Len(q) /\ \A i \in 1..Len(p) : p[i] = q[i]

\* The operations of a sequence up to the notification of a failure
BeforeToast(ops) ==
  IF ops # <<>> /\ LastOf(ops) = "showToast" THEN SubSeq(ops, 1, Len(ops) - 1) ELSE ops

\* The prompt variant an invocation uses: fire-and-forget when async
PromptOp(e) == IF e.args.async THEN "promptAsync" ELSE "prompt"

\* The agent of the first prompt of a new or forked session
FirstAgent(e) == IF Field(e, "agent") \in Falsy THEN "build" ELSE Field(e, "agent")

\* Invocation c of session s returned without an error
Succeeded(s, c) ==
  c \in 1..Len(execs[s]) /\ Returned(execs[s][c]) /\ execs[s][c].error = None

ForkOps(e) ==
  <<"messages", "fork">>
    \o (IF e.args.title \in Falsy THEN <<>> ELSE <<"update">>)
    \o <<PromptOp(e)>>

RelayedBy(s, t) ==
  {n \in 1..Len(handlers[s]) :
     handlers[s][n].branch = "relay" /\ handlers[s][n].state.text = t}

\* C23: whatever events are handled and however the handlers interleave, a
\* staged relay payload is taken by at most one handler and sent by at most
\* one prompt, and an active compaction is taken by at most one handler and
\* its continuation sent by at most one prompt; while the handler that took
\* an entry is suspended (prompt in flight, settle delay) the entry is not in
\* its store.
C23_AtMostOnce ==
  \A s \in Sessions : \A t \in Texts(s) :
    /\ Cardinality(RelayedBy(s, t)) <= 1
    /\ Cardinality(TakenBy(s, t)) <= 1
    /\ Cardinality(SentTo(s, t)) <= 1
    /\ \A n \in RelayedBy(s, t) : "relay" \notin HeldIn(s, t)
    /\ \A n \in TakenBy(s, t) : "active" \notin HeldIn(s, t)

\* While the relay prompt of one handler was still in flight a later idle
\* event for the session was handled, and while a handler was in its settle
\* delay a later event for the session was handled; the text went out once.
C23_Witness ==
  \E s \in Sessions, n \in HandlerIds, m \in HandlerIds :
    /\ n < m /\ m \in 1..Len(handlers[s])
    /\ \/ handlers[s][n].branch = "relay" /\ handlers[s][n].pc = "prompt"
       \/ handlers[s][n].branch = "compacted" /\ handlers[s][n].pc = "settle"
    /\ Cardinality(SentTo(s, handlers[s][n].state.text)) <= 1


\* C24: the failure of the summarize call of one promotion removes no
\* ActiveCompaction but the one that promotion made: an entry made for S by
\* a later promotion is left as it is.
C24_FailureRemovesOwnOnly ==
  [][\A s \in Sessions, m \in HandlerIds :
       (SummarizeFails(s, m) /\ Has(activeCompactions, s) /\ ~Promoted(s, m)) =>
         SameEntry(activeCompactions, s)]_vars

\* C25: in the step that sends the continuation prompt to S after the settle
\* delay, S has no ActiveCompaction and none of its summarize calls is
\* outstanding.
C25_NoContinuationWhileCompacting ==
  [][\A s \in Sessions, n \in HandlerIds :
       (SettleStep(s, n) /\ log'[s] # log[s]) =>
         /\ ~Has(activeCompactions, s)
         /\ \A m \in HandlerIds : ~SummarizePending(s, m)]_vars

\* The step in which the prompt awaited by handler n of s settles, either way
PromptSettles(s, n) == Suspended(s, n, "prompt") /\ handlers'[s][n].pc = "done"

\* C26: a handler that took a relay or an active compaction issues at most
\* one prompt, none when the tools string does not parse, and never a
\* notification; it is suspended or has completed, and never ends in a
\* failure.  The step in which its prompt settles, resolved or rejected,
\* changes no store and issues nothing, so the entry is not restored and the
\* send is not repeated.
C26_DeferredFailSilently ==
  /\ [](\A s \in Sessions, n \in HandlerIds :
          (n \in 1..Len(handlers[s]) /\ handlers[s][n].branch \in {"relay", "compacted"}) =>
            LET h == handlers[s][n] IN
            /\ h.pc \in {"prompt", "settle", "done"}
            /\ Cardinality(IssuedBy(s, n)) <= 1
            /\ \A i \in IssuedBy(s, n) : log[s][i].op = "prompt" /\ log[s][i].text = h.state.text
            /\ Unparseable(h.state) => IssuedBy(s, n) = {} /\ h.pc \in {"settle", "done"}
            /\ HeldIn(s, h.state.text) \subseteq {"request"})
  /\ [][\A s \in Sessions, n \in HandlerIds : PromptSettles(s, n) =>
          UNCHANGED <<pendingMessages, pendingCompactions, activeCompactions, log, execs>>]_vars

\* A relay whose tools string does not parse was taken: the handler has
\* completed, nothing was sent, and the entry is gone.
C26_Witness ==
  \E s \in Sessions, n \in HandlerIds :
    /\ n \in 1..Len(handlers[s])
    /\ handlers[s][n].branch = "relay" /\ handlers[s][n].pc = "done"
    /\ Unparseable(handlers[s][n].state)
    /\ IssuedBy(s, n) = {}
    /\ HeldIn(s, handlers[s][n].state.text) = {}


\* The step is a step of invocation c of session s: its start, or the
\* resumption after one of its awaits
ExecStep(s, c) ==
  /\ c \in 1..Len(execs'[s])
  /\ c > Len(execs[s]) \/ execs'[s][c] # execs[s][c]

\* The three stores are the same before and after the step
StoresUnchanged == UNCHANGED <<pendingMessages, pendingCompactions, activeCompactions>>

\* Invocation c of session s returned a string that begins with "Error:"
ReturnedError(s, c) ==
  /\ c \in 1..Len(execs[s])
  /\ Returned(execs[s][c])
  /\ \/ execs[s][c].error # None /\ execs[s][c].result = "Error: " \o execs[s][c].error
     \/ execs[s][c].result = NoModelError

\* C27: the only steps of a tool call that change a store are the staging
\* steps, and a call that has staged returns its acknowledgement, so a call
\* that returns "Error: ..." changed no store in any of its steps and its
\* text is in no store; in particular not after a failed context fetch in
\* message mode nor after a failed marker prompt in compact mode.
C27_ErrorLeavesStores ==
  /\ [][\A s \in Sessions, c \in Ids : (ExecStep(s, c) /\ ~StoresUnchanged) =>
          /\ Succeeded(s, c)'
          /\ ~ReturnedError(s, c)']_vars
  /\ [][\A s \in Sessions, c \in Ids : Succeeded(s, c) => Succeeded(s, c)']_vars
  /\ [](\A s \in Sessions, c \in Ids : ReturnedError(s, c) =>
          /\ ~Succeeded(s, c) \/ execs[s][c].result = NoModelError
          /\ HeldIn(s, execs[s][c].args.text) = {})

\* A message call returned the error of its failed context fetch, and a
\* compact call that of its failed marker prompt, and staged nothing, while
\* the session holds the pending entry of another call.
C27_Witness ==
  \E s \in Sessions, c \in Ids :
    /\ ReturnedError(s, c)
    /\ \/ InMode(s, c, "message") /\ execs[s][c].error = Rejection("messages")
       \/ InMode(s, c, "compact") /\ execs[s][c].error = Rejection("prompt")
    /\ HeldIn(s, execs[s][c].args.text) = {}
    /\ Has(pendingMessages, s) \/ Has(pendingCompactions, s)

\* C28: no step of a tool call creates, changes or removes an
\* ActiveCompaction; the steps of a new or a fork call change no store; those
\* of a message call change at most the PendingRelay of the invoking session
\* and those of a compact call at most its PendingCompaction.
C28_StoreOwnership ==
  [][\A s \in Sessions, c \in Ids : ExecStep(s, c) =>
       /\ activeCompactions' = activeCompactions
       /\ execs'[s][c].args.mode \in {"new", "fork"} => StoresUnchanged
       /\ execs'[s][c].args.mode = "message" =>
            /\ pendingCompactions' = pendingCompactions
            /\ \A o \in Sessions \ {s} : SameEntry(pendingMessages, o)
       /\ execs'[s][c].args.mode = "compact" =>
            /\ pendingMessages' = pendingMessages
            /\ \A o \in Sessions \ {s} : SameEntry(pendingCompactions, o)]_vars

\* A compact call staged its request while the session had an active
\* compaction, which is still there.
C28_Witness ==
  \E s \in Sessions, c \in Ids :
    /\ InMode(s, c, "compact") /\ Succeeded(s, c)
    /\ HeldIn(s, execs[s][c].args.text) = {"request"}
    /\ Has(activeCompactions, s)


\* C29: every prompt sent, by the relay, the continuation or the first
\* prompt of a new or forked session, carries no model or a model with both
\* a modelID and a providerID.
C29_NoPartialModel ==
  \A s \in Sessions : \A i \in 1..Len(log[s]) :
    log[s][i].op \in {"prompt", "promptAsync"} =>
      log[s][i].model = NoModel \/ HasPair(log[s][i].model)

====
